---------------------------- MODULE Spec2Model ----------------------------
(***************************************************************************)
(* Model of the shift scheduler of semotomo/Antigravity:                   *)
(*   src/solver.py  solve_schedule_from_ui  (day-by-day beam search)       *)
(*   src/utils.py   get_role_map_from_df, can_cover_required_roles,        *)
(*                  get_possible_day_patterns, assign_roles_smartly        *)
(*                                                                         *)
(* Conventions.                                                            *)
(*  - Workers and days are 0-based as in the source (s in 0..num_staff-1,  *)
(*    d in 0..num_days-1).                                                 *)
(*  - A day pattern (a tuple produced by itertools.combinations over the   *)
(*    ascending list avail) is a set of worker indices; "list order" of a  *)
(*    pattern is ascending index order.                                    *)
(*  - Cell symbols are written in ASCII: "x" is the requested-off symbol   *)
(*    (U+00D7), "/" the granted-off symbol (U+FF0F), "o" the normal-duty   *)
(*    label (U+3007), "#" the shortage marker (U+203B), "*" the            *)
(*    mandatory-work mark (U+2605); "asa" / "yoru" are the columns         *)
(*    morning-eligible / night-eligible; "nashi" is the "no preference"    *)
(*    entry of the preferred-role column.                                  *)
(*  - Weekdays are 0..6 = Monday..Sunday (datetime.weekday()).             *)
(*  - Scores are kept multiplied by num_days: the pacing penalty of the    *)
(*    source is |offs - req*(d+1)/num_days| * w, a multiple of 1/num_days, *)
(*    so score * num_days is an integer and orders paths as score does.    *)
(***************************************************************************)
EXTENDS Integers, Sequences, FiniteSets, TLC

(* ------------------------------ bounds --------------------------------- *)
MaxStaff == 3
MaxDays == 3
MaxSeed == 2
MaxCells == 9

(* ------------------------- program constants --------------------------- *)
BEAM_WIDTH == 600
VALID_PREFIX == 150
MIN_USE_PATTERNS == 50
PATTERN_CAP == 300
MAX_TEAM == 9
MIN_TEAM_FLOOR == 2
LAST_THIRD_DAY == 20
CATCHUP_DAYS == 8
MIN_BODIES == 4
WEEKEND_FROM == 5
UNIVERSAL_OFF_PENALTY == 1000000

SYM_REQ_OFF == "x"
SYM_OFF == "/"
SYM_NORMAL == "o"
SYM_SHORT == "#"
SYM_MUST == "*"

DEFAULT_ROLES_CONFIG ==
  << [name |-> "A", min_per_day |-> 1, priority |-> 1],
     [name |-> "B", min_per_day |-> 1, priority |-> 2],
     [name |-> "C", min_per_day |-> 1, priority |-> 3],
     [name |-> "Neko_jp", min_per_day |-> 1, priority |-> 4] >>

(* --------------------------- small helpers ----------------------------- *)
Min2(a, b) == IF a < b THEN a ELSE b

Max2(a, b) == IF a > b THEN a ELSE b

Abs(x) == IF x < 0 THEN 0 - x ELSE x

RECURSIVE SumSet(_, _)
SumSet(S, f) ==
  IF S = {} THEN 0
  ELSE LET x == CHOOSE y \in S : TRUE IN f[x] + SumSet(S \ {x}, f)

RECURSIVE SumSeq(_)
SumSeq(q) == IF q = << >> THEN 0 ELSE Head(q) + SumSeq(Tail(q))

SetMin(S) == CHOOSE x \in S : \A y \in S : x <= y

Prefix(q, n) == SubSeq(q, 1, Min2(Len(q), n))

RECURSIVE AscSeq(_)
AscSeq(S) ==
  IF S = {} THEN << >> ELSE LET m == SetMin(S) IN <<m>> \o AscSeq(S \ {m})

(* Python's sort is stable: StableOrder(keys) is the sequence of positions  *)
(* of keys in ascending key order, equal keys in their original order.      *)
RECURSIVE OrderFrom(_, _)
OrderFrom(keys, vals) ==
  IF vals = {} THEN << >>
  ELSE LET m == SetMin(vals)
       IN SelectSeq([i \in 1..Len(keys) |-> i], LAMBDA i : keys[i] = m)
            \o OrderFrom(keys, vals \ {m})

StableOrder(keys) == OrderFrom(keys, {keys[i] : i \in 1..Len(keys)})

SortedBy(q, keys) ==
  LET ord == StableOrder(keys) IN [j \in 1..Len(q) |-> q[ord[j]]]

(* SortedPrefix(q, keys, n) = Prefix(SortedBy(q, keys), n), computed without  *)
(* ordering the elements that the prefix leaves out.                         *)
RECURSIVE OrderPrefix(_, _, _)
OrderPrefix(keys, vals, n) ==
  IF vals = {} \/ n <= 0 THEN << >>
  ELSE LET m == SetMin(vals)
           same == SelectSeq([i \in 1..Len(keys) |-> i], LAMBDA i : keys[i] = m)
       IN IF Len(same) >= n THEN Prefix(same, n)
          ELSE same \o OrderPrefix(keys, vals \ {m}, n - Len(same))

SortedPrefix(q, keys, n) ==
  LET ord == OrderPrefix(keys, {keys[i] : i \in 1..Len(keys)}, n)
  IN [j \in 1..Len(ord) |-> q[ord[j]]]

SeqRange(q) == {q[i] : i \in 1..Len(q)}

(* ------------------------------ utils.py ------------------------------- *)
RoleNames(roles_config) == {roles_config[i].name : i \in 1..Len(roles_config)}

(* get_role_map_from_df: row i's set of capabilities *)
get_role_map_from_df(df, roles_config) ==
  [i \in 0..(Len(df) - 1) |->
     {r \in RoleNames(roles_config) : r \in df[i + 1].flags}
       \cup (IF "yoru" \in df[i + 1].flags THEN {"Night"} ELSE {})
       \cup (IF "asa" \in df[i + 1].flags THEN {"Morning"} ELSE {})]

(* sorted(roles_config, key=priority) *)
SortedRoles(roles_config) ==
  SortedBy(roles_config, [i \in 1..Len(roles_config) |-> roles_config[i].priority])

(* mutant: a worker taken by an earlier role still counts for a later one *)
GreedyCover_CountingTaken(roles, staff_list, role_map, assigned) ==
  \A i \in 1..Len(roles) :
     Cardinality({s \in staff_list : roles[i].name \in role_map[s]}) >= roles[i].min_per_day

(* mutant: the roles are checked by an exhaustive assignment of distinct workers *)
GreedyCover_ExactMatching(roles, staff_list, role_map, assigned) ==
  \E g \in [staff_list -> {roles[i].name : i \in 1..Len(roles)} \cup {"nashi"}] :
    /\ \A s \in staff_list : g[s] = "nashi" \/ g[s] \in role_map[s]
    /\ \A i \in 1..Len(roles) :
         Cardinality({s \in staff_list : g[s] = roles[i].name}) >= roles[i].min_per_day

(* the greedy pass of can_cover_required_roles over the sorted roles *)
RECURSIVE GreedyCover(_, _, _, _)

GreedyCover(roles, staff_list, role_map, assigned) ==
  IF roles = << >> THEN TRUE
  ELSE LET role == Head(roles)
           candidates == AscSeq({s \in staff_list :
                                   s \notin assigned /\ role.name \in role_map[s]})
       IN IF Len(candidates) < role.min_per_day THEN FALSE
          ELSE GreedyCover(Tail(roles), staff_list, role_map,
                           assigned \cup SeqRange(Prefix(candidates, role.min_per_day)))

(* mutant: the minimum night headcount is not checked *)
can_cover_required_roles_NoNightCheck(staff_list, role_map, constraints, roles_config) ==
  LET sorted_roles == SortedRoles(roles_config)
      total_min == SumSeq([i \in 1..Len(sorted_roles) |-> sorted_roles[i].min_per_day])
  IN IF Cardinality({s \in staff_list : "Morning" \in role_map[s]}) < constraints.min_morning
       THEN FALSE
     ELSE IF Cardinality(staff_list) < total_min THEN FALSE
     ELSE GreedyCover(sorted_roles, staff_list, role_map, {})

can_cover_required_roles(staff_list, role_map, constraints, roles_config) ==
  LET sorted_roles == SortedRoles(roles_config)
      total_min == SumSeq([i \in 1..Len(sorted_roles) |-> sorted_roles[i].min_per_day])
  IN IF Cardinality({s \in staff_list : "Night" \in role_map[s]}) < constraints.min_night
       THEN FALSE
     ELSE IF Cardinality({s \in staff_list : "Morning" \in role_map[s]}) < constraints.min_morning
       THEN FALSE
     ELSE IF Cardinality(staff_list) < total_min THEN FALSE
     ELSE GreedyCover(sorted_roles, staff_list, role_map, {})

(* itertools.combinations(available_staff, size), in its lexicographic order *)
RECURSIVE Combinations(_, _)
Combinations(S, k) ==
  IF k = 0 THEN << {} >>
  ELSE IF Cardinality(S) < k THEN << >>
  ELSE LET m == SetMin(S)
           with == Combinations(S \ {m}, k - 1)
       IN [i \in 1..Len(with) |-> with[i] \cup {m}] \o Combinations(S \ {m}, k)

RECURSIVE PatternsFromSize(_, _, _)
PatternsFromSize(avail, size, last) ==
  IF size > last THEN << >>
  ELSE Combinations(avail, size) \o PatternsFromSize(avail, size + 1, last)

(* utils.py 133-134 *)
MinTeamSize(roles_config) ==
  Max2(SumSeq([i \in 1..Len(roles_config) |-> roles_config[i].min_per_day]),
       MIN_TEAM_FLOOR)

(* mutant: the largest team is one worker larger *)
get_possible_day_patterns_CapTen(available_staff, roles_config) ==
  PatternsFromSize(available_staff, MinTeamSize(roles_config),
                   Min2(Cardinality(available_staff), MAX_TEAM + 1))

(* utils.py 136-140 *)

get_possible_day_patterns(available_staff, roles_config) ==
  PatternsFromSize(available_staff, MinTeamSize(roles_config),
                   Min2(Cardinality(available_staff), MAX_TEAM))


(* mutant: a preferred role is given whatever demand remains for it *)
RECURSIVE PreferencePass_IgnoringDemand(_, _, _, _)
PreferencePass_IgnoringDemand(pool, df, role_map, st) ==
  IF pool = << >> THEN st
  ELSE LET s == Head(pool)
           pref == df[s + 1].pref
           take == /\ pref \notin {"", "nashi"}
                   /\ pref \in DOMAIN st.demand
                   /\ pref \in role_map[s]
       IN PreferencePass_IgnoringDemand(Tail(pool), df, role_map,
            IF take
              THEN [asg |-> (s :> pref) @@ st.asg,
                    demand |-> [st.demand EXCEPT ![pref] = @ - 1]]
              ELSE st)

(* ---- assign_roles_smartly ---- *)
(* Phase 1: workers with a preferred role, in pool order.                   *)
(* st = [asg |-> assignments, demand |-> role_demand]                       *)
RECURSIVE PreferencePass(_, _, _, _)
PreferencePass(pool, df, role_map, st) ==
  IF pool = << >> THEN st
  ELSE LET s == Head(pool)
           pref == df[s + 1].pref
           take == /\ pref \notin {"", "nashi"}
                   /\ pref \in DOMAIN st.demand
                   /\ st.demand[pref] > 0
                   /\ pref \in role_map[s]
       IN PreferencePass(Tail(pool), df, role_map,
            IF take
              THEN [asg |-> (s :> pref) @@ st.asg,
                    demand |-> [st.demand EXCEPT ![pref] = @ - 1]]
              ELSE st)

versatility_score(s, role_map, role_names) ==
  Cardinality({r \in role_names : r \in role_map[s]})

(* Phase 2: roles in priority order take their remaining demand from the    *)
(* unassigned eligible workers, least versatile first.                      *)
(* st = [asg, demand, remaining]                                            *)
RECURSIVE QuotaPass(_, _, _, _)
QuotaPass(roles, role_map, role_names, st) ==
  IF roles = << >> THEN st
  ELSE LET rname == Head(roles).name
           needed == st.demand[rname]
           cands == SelectSeq(st.remaining, LAMBDA s : rname \in role_map[s])
           sorted == SortedBy(cands, [i \in 1..Len(cands) |->
                                        versatility_score(cands[i], role_map, role_names)])
           chosen == SeqRange(Prefix(sorted, needed))
       IN IF needed <= 0 THEN QuotaPass(Tail(roles), role_map, role_names, st)
          ELSE QuotaPass(Tail(roles), role_map, role_names,
                 [asg |-> [s \in chosen |-> rname] @@ st.asg,
                  demand |-> [st.demand EXCEPT ![rname] = @ - Cardinality(chosen)],
                  remaining |-> SelectSeq(st.remaining, LAMBDA s : s \notin chosen)])

(* mutant: a leftover worker receives the capable role of best priority *)
LowestPriorityRole_Best(sorted_roles, caps) ==
  IF \E i \in 1..Len(sorted_roles) : sorted_roles[i].name \in caps
    THEN sorted_roles[SetMin({i \in 1..Len(sorted_roles) : sorted_roles[i].name \in caps})].name
    ELSE SYM_NORMAL

(* the first role of reversed(sorted_roles) the worker is capable of, or "o" *)
RECURSIVE LowestPriorityRole(_, _)
LowestPriorityRole(sorted_roles, caps) ==
  IF sorted_roles = << >> THEN SYM_NORMAL
  ELSE LET last == sorted_roles[Len(sorted_roles)]
       IN IF last.name \in caps THEN last.name
          ELSE LowestPriorityRole(SubSeq(sorted_roles, 1, Len(sorted_roles) - 1), caps)

(* role_demand before phase 1: every role's min_per_day *)
InitialDemand(sorted_roles) ==
  [r \in {sorted_roles[j].name : j \in 1..Len(sorted_roles)} |->
     LET i == CHOOSE j \in 1..Len(sorted_roles) :
                /\ sorted_roles[j].name = r
                /\ \A k \in (j + 1)..Len(sorted_roles) : sorted_roles[k].name # r
     IN sorted_roles[i].min_per_day]

(* assignments and role_demand after phase 1 *)
AfterPreferencePass(working_indices, role_map, roles_config, df) ==
  PreferencePass(AscSeq(working_indices), df, role_map,
                 [asg |-> << >>, demand |-> InitialDemand(SortedRoles(roles_config))])

(* assignments, role_demand and remaining after phase 2 *)
AfterQuotaPass(working_indices, role_map, roles_config, df) ==
  LET pool == AscSeq(working_indices)
      p1 == AfterPreferencePass(working_indices, role_map, roles_config, df)
  IN QuotaPass(SortedRoles(roles_config), role_map, RoleNames(roles_config),
               [asg |-> p1.asg, demand |-> p1.demand,
                remaining |-> SelectSeq(pool, LAMBDA s : s \notin DOMAIN p1.asg)])

assign_roles_smartly(working_indices, role_map, roles_config, df) ==
  LET sorted_roles == SortedRoles(roles_config)
      p2 == AfterQuotaPass(working_indices, role_map, roles_config, df)
  IN [s \in SeqRange(p2.remaining) |-> LowestPriorityRole(sorted_roles, role_map[s])]
       @@ p2.asg


(* ------------------------------ solver.py ------------------------------ *)
VARIABLES
  staff_df,             \* worker table: sequence of rows (rebound by preprocessing)
  holidays_df,          \* leave table: row index -> day index -> cell
  required_work_df,     \* mandatory-attendance table: row index -> day index -> cell
  days_list,            \* the window: sequence of weekdays (0 = Monday)
  constraints,          \* [min_morning, min_night, weekday_targets]
  priority_days,        \* set of priority weekdays
  roles_config,         \* sequence of [name, min_per_day, priority]
  pc,                   \* position in solve_schedule_from_ui
  fixed_shifts,         \* s -> d -> "" or "x"
  required_work_flags,  \* s -> d -> BOOLEAN
  day_patterns,         \* d -> sequence of patterns (after the shuffle)
  current_paths,        \* sequence of paths
  next_paths,           \* sequence of successors of the current day
  d,                    \* index of the day being expanded
  tier_log,             \* the tier that resolved each finished day
  returned,             \* "pending", "None" or "table"
  output_data           \* the returned table

vars == << staff_df, holidays_df, required_work_df, days_list, constraints,
           priority_days, roles_config, pc, fixed_shifts, required_work_flags,
           day_patterns, current_paths, next_paths, d, tier_log, returned,
           output_data >>

inputs == << holidays_df, required_work_df, days_list, constraints,
             priority_days, roles_config >>

num_days == Len(days_list)

num_staff == Len(staff_df)

Staff == 0..(num_staff - 1)

Days == 0..(num_days - 1)

Weekday(day) == days_list[day + 1]

role_map == get_role_map_from_df(staff_df, roles_config)

initial_cons == [s \in Staff |-> staff_df[s + 1].prev_cons]

req_offs == [s \in Staff |-> staff_df[s + 1].req]

max_cons_limits == [s \in Staff |-> staff_df[s + 1].max_cons]

is_seishain == [s \in Staff |-> staff_df[s + 1].seishain]

(* mutant: only the missing names are dropped, the empty ones are kept *)
NamedRows_KeepEmpty(df) == SelectSeq(df, LAMBDA row : row.name # "NaN")

(* solver.py 41-43: dropna(subset=[name]) and name != "" *)
NamedRows(df) == SelectSeq(df, LAMBDA row : row.name \notin {"", "NaN"})

(* solver.py 60-67 *)
FixedShiftsFromLeave(n) ==
  [s \in 0..(n - 1) |-> [day \in Days |->
     IF s < Min2(n, Len(holidays_df)) /\ holidays_df[s + 1][day + 1] \in {"True", SYM_REQ_OFF}
       THEN SYM_REQ_OFF ELSE ""]]

(* solver.py 69-78 *)
RequiredWorkFlags(n) ==
  [s \in 0..(n - 1) |-> [day \in Days |->
     /\ s < Min2(n, Len(required_work_df))
     /\ required_work_df[s + 1][day + 1] \in {"True", SYM_MUST}]]

(* mutant: the mandatory mark does not clear the requested-off mark *)
FixedShifts_NoOverride(n) == FixedShiftsFromLeave(n)

(* solver.py 79-81: a mandatory mark clears the requested-off mark *)
FixedShifts(n) ==
  LET leave == FixedShiftsFromLeave(n)
      flags == RequiredWorkFlags(n)
  IN [s \in 0..(n - 1) |-> [day \in Days |->
        IF flags[s][day] /\ leave[s][day] = SYM_REQ_OFF THEN "" ELSE leave[s][day]]]

(* solver.py 87-94 *)
daily_target(day) ==
  IF Weekday(day) \in DOMAIN constraints.weekday_targets
    THEN constraints.weekday_targets[Weekday(day)]
    ELSE [asa |-> constraints.min_morning, yoru |-> constraints.min_night]

(* mutant: a requested day off does not remove the worker from the day *)
Avail_Everyone(day) == Staff

(* solver.py 102 *)
Avail(day) == {s \in Staff : fixed_shifts[s][day] # SYM_REQ_OFF}

(* solver.py 104 *)
MustWork(day) == {s \in Staff : required_work_flags[s][day]}

(* mutant: the must-work filter of solver.py 106-107 is left out *)
DayPatternList_NoFilter(day) == get_possible_day_patterns(Avail(day), roles_config)

(* solver.py 105-110 *)
DayPatternList(day) ==
  LET pats == get_possible_day_patterns(Avail(day), roles_config)
      must_work == MustWork(day)
      kept == SelectSeq(pats, LAMBDA p : must_work \subseteq p)
  IN IF must_work = {} THEN pats
     ELSE IF kept # << >> THEN kept
     ELSE get_possible_day_patterns(Avail(day), DEFAULT_ROLES_CONFIG)

(* random.shuffle (solver.py 111) may leave the list in any order.  The    *)
(* outcome number k selects one: PermuteBy enumerates the permutations in *)
(* the factorial number system, odd k reverses the result.                 *)
RECURSIVE PermuteBy(_, _)
PermuteBy(q, k) ==
  IF q = << >> \/ k = 0 THEN q
  ELSE LET i == (k % Len(q)) + 1
       IN <<q[i]>> \o PermuteBy(SubSeq(q, 1, i - 1) \o SubSeq(q, i + 1, Len(q)), k \div Len(q))

Reverse(q) == [i \in 1..Len(q) |-> q[Len(q) + 1 - i]]

ShuffleOutcome(q, k) ==
  IF k % 2 = 0 THEN PermuteBy(q, k \div 2) ELSE Reverse(PermuteBy(q, k \div 2))

(* solver.py 115-122 *)
InitialPath ==
  [sched |-> [day \in Days |-> {}],
   cons |-> initial_cons,
   offs |-> [s \in Staff |-> 0],
   off_cons |-> [s \in Staff |-> 0],
   weekend_offs |-> [s \in Staff |-> 0],
   score |-> 0]



(* solver.py 138-143 *)
Covers(p) == can_cover_required_roles(p, role_map, constraints, roles_config)

UsePatterns(patterns) ==
  LET valid_pats == SelectSeq(patterns, LAMBDA p : Covers(p))
      invalid_pats == SelectSeq(patterns, LAMBDA p : ~Covers(p))
      use_patterns == Prefix(valid_pats, VALID_PREFIX) \o Prefix(invalid_pats, VALID_PREFIX)
  IN IF Len(use_patterns) < MIN_USE_PATTERNS
       THEN Prefix(valid_pats \o invalid_pats, PATTERN_CAP)
       ELSE use_patterns

(* ---- expand_paths, one (path, pat) pair: solver.py 151-277 ---- *)
NewCons(path, pat) == [s \in Staff |-> IF s \in pat THEN path.cons[s] + 1 ELSE 0]

(* mutant: the days-off counter advances whether or not the worker works *)
NewOffs_EveryDay(path, pat) == [s \in Staff |-> path.offs[s] + 1]

NewOffs(path, pat) == [s \in Staff |-> IF s \in pat THEN path.offs[s] ELSE path.offs[s] + 1]

(* mutant: a worked day does not end the run of off days *)
NewOffCons_NeverReset(path, pat) ==
  [s \in Staff |-> IF s \in pat THEN path.off_cons[s] ELSE path.off_cons[s] + 1]

NewOffCons(path, pat) ==
  [s \in Staff |-> IF s \in pat THEN 0 ELSE path.off_cons[s] + 1]

CountsWeekendOff(pat, s, day) ==
  /\ s \notin pat
  /\ Weekday(day) >= WEEKEND_FROM
  /\ is_seishain[s]
  /\ fixed_shifts[s][day] # SYM_REQ_OFF

NewWeekendOffs(path, pat, day) ==
  [s \in Staff |->
     IF CountsWeekendOff(pat, s, day) THEN path.weekend_offs[s] + 1
     ELSE path.weekend_offs[s]]

(* mutant: the hard cutoff is one day too late *)
OverLimit_OneDayLate(path, pat, s) ==
  /\ s \in pat
  /\ NewCons(path, pat)[s] > max_cons_limits[s] + 2

(* solver.py 172-178: more than one day past the limit *)
OverLimit(path, pat, s) ==
  /\ s \in pat
  /\ NewCons(path, pat)[s] > max_cons_limits[s]
  /\ NewCons(path, pat)[s] # max_cons_limits[s] + 1

(* solver.py 167-195: the per-worker penalty *)
StaffPenalty(path, pat, s, day, strict_constraints) ==
  LET limit == max_cons_limits[s]
      nc == NewCons(path, pat)[s]
  IN IF s \in pat
       THEN IF nc > limit
              THEN IF nc = limit + 1 THEN 1000
                   ELSE IF strict_constraints THEN 0 ELSE 100000
              ELSE IF nc = limit THEN 50 ELSE 0
       ELSE (IF CountsWeekendOff(pat, s, day) /\ NewWeekendOffs(path, pat, day)[s] > 1
               THEN 20000 ELSE 0)
            + (IF NewOffCons(path, pat)[s] >= 3
                 THEN 100 + (IF "Neko" \in role_map[s] /\ "C" \in role_map[s]
                                  /\ "A" \notin role_map[s] THEN 200 ELSE 0)
                 ELSE 0)

(* mutant: the days left are counted from the current day, one too many *)
DaysOffUnreachable_OffByOne(path, pat, day) ==
  \E s \in Staff : NewOffs(path, pat)[s] + (num_days - day) < req_offs[s]

(* mutant: the whole window is counted as still ahead *)
DaysOffUnreachable_WholeWindowAhead(path, pat, day) ==
  \E s \in Staff : NewOffs(path, pat)[s] + num_days < req_offs[s]

(* solver.py 200-208 *)
DaysOffUnreachable(path, pat, day) ==
  \E s \in Staff : NewOffs(path, pat)[s] + (num_days - 1 - day) < req_offs[s]

(* solver.py 210-217, multiplied by num_days *)
PacingPenalty(path, pat, day) ==
  LET diff == [s \in Staff |-> NewOffs(path, pat)[s] * num_days - req_offs[s] * (day + 1)]
      pace == [s \in Staff |-> IF diff[s] < 0 THEN Abs(diff[s]) * 10000
                                            ELSE Abs(diff[s]) * 2000]
      late == [s \in Staff |-> IF diff[s] < 0 THEN Abs(diff[s]) * 50000 ELSE 0]
  IN SumSet(Staff, pace)
       + (IF num_days - 1 - day < CATCHUP_DAYS THEN SumSet(Staff, late) ELSE 0)

(* solver.py 219-251 *)
SurplusPenaltyWeight(new_offs, day) ==
  LET remaining_capacity ==
        [s \in Staff |-> Max2(0, (num_days - req_offs[s]) - ((day + 1) - new_offs[s]))]
      total_remaining_capacity == SumSet(Staff, remaining_capacity)
      needed == [f \in (day + 1)..(num_days - 1) |->
                   Max2(MIN_BODIES, daily_target(f).asa + daily_target(f).yoru)]
      min_needed == SumSet((day + 1)..(num_days - 1), needed)
      \* tightness = min_needed / total_remaining_capacity, or 2.0 when that is 0
      over09 == IF total_remaining_capacity > 0
                  THEN 10 * min_needed > 9 * total_remaining_capacity ELSE TRUE
      over10 == IF total_remaining_capacity > 0
                  THEN min_needed > total_remaining_capacity ELSE TRUE
      tight == IF over10 THEN 5000 ELSE IF over09 THEN 1000 ELSE 500
  IN IF Weekday(day) \in priority_days THEN 0
     ELSE IF day >= LAST_THIRD_DAY THEN 10000
     ELSE tight

(* solver.py 253-268 *)
TargetPenalty(path, pat, day) ==
  LET target_m == daily_target(day).asa
      target_n == daily_target(day).yoru
      c_m == Cardinality({s \in pat : "Morning" \in role_map[s]})
      c_n == Cardinality({s \in pat : "Night" \in role_map[s]})
      surplus_staff == Max2(0, Cardinality(pat) - Max2(MIN_BODIES, target_m + target_n))
  IN (IF c_m < target_m THEN (target_m - c_m) * 50 ELSE 0)
       + (IF c_n < target_n THEN (target_n - c_n) * 50 ELSE 0)
       + surplus_staff * SurplusPenaltyWeight(NewOffs(path, pat), day)

(* mutant: strict mode does not look at the days off that remain reachable *)
Rejected_IgnoringDaysOff(path, pat, day, strict_constraints) ==
  strict_constraints /\ \E s \in Staff : OverLimit(path, pat, s)

(* mutant: the relaxed tier keeps the rejection of unreachable days off *)
Rejected_AlsoWhenRelaxed(path, pat, day, strict_constraints) ==
  \/ strict_constraints /\ \E s \in Staff : OverLimit(path, pat, s)
  \/ DaysOffUnreachable(path, pat, day)

(* mutant: strict mode does not look at the consecutive-workdays limit *)
Rejected_IgnoringLimit(path, pat, day, strict_constraints) ==
  strict_constraints /\ DaysOffUnreachable(path, pat, day)

(* mutant: a worker more than one day past the limit is dropped in every tier *)
Rejected_OverLimitInEveryTier(path, pat, day, strict_constraints) ==
  \/ \E s \in Staff : OverLimit(path, pat, s)
  \/ strict_constraints /\ DaysOffUnreachable(path, pat, day)

(* solver.py 176-178, 203-205: the pairs that strict mode drops *)

Rejected(path, pat, day, strict_constraints) ==
  /\ strict_constraints
  /\ \/ \E s \in Staff : OverLimit(path, pat, s)
     \/ DaysOffUnreachable(path, pat, day)

Penalty(path, pat, day, strict_constraints) ==
  num_days * ( (IF Covers(pat) THEN 0 ELSE 50000)
               + SumSet(Staff, [s \in Staff |->
                                  StaffPenalty(path, pat, s, day, strict_constraints)])
               + (IF ~strict_constraints /\ DaysOffUnreachable(path, pat, day)
                    THEN 10000000 ELSE 0)
               + TargetPenalty(path, pat, day) )
    + PacingPenalty(path, pat, day)

Successor(path, pat, day, strict_constraints) ==
  [sched |-> [path.sched EXCEPT ![day] = pat],
   cons |-> NewCons(path, pat),
   offs |-> NewOffs(path, pat),
   off_cons |-> NewOffCons(path, pat),
   weekend_offs |-> NewWeekendOffs(path, pat, day),
   score |-> path.score + Penalty(path, pat, day, strict_constraints)]

(* for path in paths: for pat in patterns_to_use: ... append unless rejected *)
expand_paths(paths, patterns_to_use, day, strict_constraints) ==
  LET m == Len(patterns_to_use)
      pathOf(k) == paths[((k - 1) \div m) + 1]
      patOf(k) == patterns_to_use[((k - 1) % m) + 1]
      kept == SelectSeq([k \in 1..(Len(paths) * m) |-> k],
                        LAMBDA k : ~Rejected(pathOf(k), patOf(k), day, strict_constraints))
  IN [j \in 1..Len(kept) |->
        Successor(pathOf(kept[j]), patOf(kept[j]), day, strict_constraints)]

(* mutant: the universal-off tier extends no path *)
UniversalOff_Nothing(paths) == SubSeq(paths, 1, 0)

(* mutant: the universal-off day leaves the consecutive-workdays counters alone *)
UniversalOff_KeepingCons(paths) ==
  [j \in 1..Len(paths) |->
     [sched |-> paths[j].sched,
      cons |-> paths[j].cons,
      offs |-> [s \in Staff |-> paths[j].offs[s] + 1],
      off_cons |-> [s \in Staff |-> paths[j].off_cons[s] + 1],
      weekend_offs |-> paths[j].weekend_offs,
      score |-> paths[j].score + num_days * UNIVERSAL_OFF_PENALTY]]

(* solver.py 289-299 *)
UniversalOff(paths) ==
  [j \in 1..Len(paths) |->
     [sched |-> paths[j].sched,
      cons |-> [s \in Staff |-> 0],
      offs |-> [s \in Staff |-> paths[j].offs[s] + 1],
      off_cons |-> [s \in Staff |-> paths[j].off_cons[s] + 1],
      weekend_offs |-> paths[j].weekend_offs,
      score |-> paths[j].score + num_days * UNIVERSAL_OFF_PENALTY]]

(* solver.py 301-302 *)
SortByScore(paths) == SortedBy(paths, [i \in 1..Len(paths) |-> paths[i].score])

(* mutant: the successors are truncated without having been sorted *)
Prune_Unsorted(paths) == Prefix(paths, BEAM_WIDTH)

(* next_paths.sort(key=score); next_paths[:BEAM_WIDTH] *)
Prune(paths) ==
  SortedPrefix(paths, [i \in 1..Len(paths) |-> paths[i].score], BEAM_WIDTH)


(* ---- result assembly: solver.py 308-356 ---- *)
Working(sched, day) == sched[day]

(* solver.py 333-341: label of a working worker that assign_roles_smartly left out *)
FallbackRole(s) == LowestPriorityRole(SortedRoles(roles_config), role_map[s])

CellLabel(final_sched, s, day) ==
  LET working == Working(final_sched, day)
      roles == assign_roles_smartly(working, role_map, roles_config, staff_df)
  IN IF s \in working
       THEN IF s \in DOMAIN roles THEN roles[s] ELSE FallbackRole(s)
       ELSE IF fixed_shifts[s][day] = SYM_REQ_OFF THEN SYM_REQ_OFF ELSE SYM_OFF

(* mutant: the marker is carried from the search (a day is short when the  *)
(* strict tier did not resolve it)                                          *)
is_insufficient_FromSearch(final_sched, day) == tier_log[day + 1] # "strict"

is_insufficient(final_sched, day) == ~Covers(Working(final_sched, day))

AssembleTable(best_path) ==
  LET final_sched == best_path.sched
      cells == [s \in Staff |-> [day \in Days |-> CellLabel(final_sched, s, day)]]
      off_count == [s \in Staff |->
                      Cardinality({day \in Days : cells[s][day] \in {SYM_OFF, SYM_REQ_OFF}})]
  IN [cells |-> cells,
      shortage |-> [day \in Days |-> IF is_insufficient(final_sched, day) THEN SYM_SHORT ELSE ""],
      summary |-> [s \in Staff |-> << num_days - off_count[s], off_count[s] >>]]

(* ------------------------------ the inputs ----------------------------- *)
NamedRow(i, limit, r0, r, c0, scheme) ==
  [name |-> "staff",
   prev_cons |-> IF i = 0 THEN c0 ELSE 0,
   req |-> IF i = 0 THEN r0 ELSE r,
   max_cons |-> limit,
   seishain |-> (i % 2 = 0),
   flags |-> IF scheme = "all" THEN {"A", "B", "asa", "yoru"}
             ELSE IF scheme = "prefs" /\ i = 2 THEN {"A", "asa", "yoru"}
             ELSE IF scheme = "steal" /\ i = 0 THEN {"A", "asa", "yoru"}
             ELSE IF scheme = "steal" THEN {"A", "B", "asa", "yoru"}
             ELSE IF scheme = "rare" /\ i < 5 THEN {"asa"}
             ELSE IF scheme = "rare" /\ i = 5 THEN {"asa", "yoru"}
             ELSE IF scheme = "rare" THEN {"A", "asa"}
             ELSE IF scheme = "prefs" THEN {"A", "B", "asa", "yoru"}
             ELSE IF scheme = "overlap" /\ i % 3 = 0 THEN {"A", "B", "asa", "yoru"}
             ELSE IF i % 3 = 0 THEN {"B", "asa", "yoru"}
             ELSE IF i % 3 = 1 THEN {"A", "asa", "yoru"}
             ELSE {"yoru"},
   pref |-> IF scheme = "prefs"
              THEN (IF i \in {0, 1} THEN "A" ELSE IF i = 2 THEN "B" ELSE "C")
              ELSE IF i = 1 THEN "A" ELSE "nashi"]

BlankRow ==
  [name |-> "", prev_cons |-> 0, req |-> 0, max_cons |-> 1, seishain |-> FALSE,
   flags |-> {}, pref |-> "nashi"]

StaffTable(n, blank, limit, r0, r, c0, scheme) ==
  (IF blank THEN << BlankRow >> ELSE << >>)
    \o [i \in 1..n |-> NamedRow(i - 1, limit, r0, r, c0, scheme)]

(* leave and mandatory-attendance marks of the first row on a target day td: *)
(*   leave1        the row requests day td off                               *)
(*   both1         the row requests day td off and is mandatory on day td    *)
(*   leaveAllMust  the row requests every day off and is mandatory on td     *)
(*   dayOffAll     every row requests day td off                             *)
LeaveModes == {"none", "leave1", "both1", "leaveAllMust", "dayOffAll"}

LeaveTable(rows, n_days, mode, td) ==
  [row \in 1..rows |-> [day \in 1..n_days |->
     IF mode \in {"leave1", "both1"} /\ row = 1 /\ day = td + 1 THEN SYM_REQ_OFF
     ELSE IF mode = "leaveAllMust" /\ row = 1 THEN SYM_REQ_OFF
     ELSE IF mode = "dayOffAll" /\ day = td + 1 THEN "True"
     ELSE "False"]]

MustTable(rows, n_days, mode, td) ==
  [row \in 1..rows |-> [day \in 1..n_days |->
     IF mode \in {"both1", "leaveAllMust"} /\ row = 1 /\ day = td + 1
       THEN SYM_MUST ELSE "False"]]

(* a role configuration with the capability scheme of the workers *)
Setups ==
  { [rc |-> << [name |-> "A", min_per_day |-> 1, priority |-> 1] >>,
     scheme |-> "all"],
    [rc |-> << [name |-> "B", min_per_day |-> 1, priority |-> 2],
               [name |-> "A", min_per_day |-> 1, priority |-> 1] >>,
     scheme |-> "mixed"] }

(* the state at the entry of solve_schedule_from_ui with the given tables *)
Entry(n, blank, n_days, limit, r0, r, c0, mode, td, setup) ==
  /\ staff_df = StaffTable(n, blank, limit, r0, r, c0, setup.scheme)
  /\ holidays_df = LeaveTable(Len(staff_df), n_days, mode, td)
  /\ required_work_df = MustTable(Len(staff_df), n_days, mode, td)
  /\ days_list = [i \in 1..n_days |-> (WEEKEND_FROM - 1 + i - 1) % 7]
  /\ constraints = [min_morning |-> 1, min_night |-> 1,
                    weekday_targets |-> (5 :> [asa |-> 1, yoru |-> 2])]
  /\ priority_days = {6}
  /\ roles_config = setup.rc
  /\ pc = "start"
  /\ fixed_shifts = << >>
  /\ required_work_flags = << >>
  /\ day_patterns = << >>
  /\ current_paths = << >>
  /\ next_paths = << >>
  /\ d = 0
  /\ tier_log = << >>
  /\ returned = "pending"
  /\ output_data = << >>

Init ==
  \E n \in 0..MaxStaff, blank \in BOOLEAN, n_days \in 0..MaxDays,
     limit \in 1..2, r0 \in 0..(MaxDays + 1), r \in 0..1, c0 \in {0, 2},
     mode \in LeaveModes, td \in 0..MaxDays, setup \in Setups :
    /\ n * n_days <= MaxCells
    /\ blank => n <= 1
    /\ r0 \in {0, 1, n_days + 1}
    /\ td \in {0, Max2(n_days, 1) - 1}
    /\ Entry(n, blank, n_days, limit, r0, r, c0, mode, td, setup)

(* Further inputs.  Unless said otherwise every worker holds every           *)
(* capability.                                                              *)
(* Three have four workers, one role with minimum headcount 1, no leave and *)
(* no mandatory attendance: an ordinary week, a week whose first worker     *)
(* requires more off-days than the window has and carries in two            *)
(* consecutive days, and a three-day window.  One has four workers, one     *)
(* role with minimum headcount 5 and a first worker who is mandatory on the *)
(* only day.  One has ten workers, more than the largest team, on a single  *)
(* day.  The last two configure two roles: in one the first worker holds    *)
(* both roles while the second holds only the role of higher priority, in   *)
(* the other all three workers hold both.  A last one has four workers who  *)
(* all declare a preferred role: the first two the same one-person role,    *)
(* the third a role the worker does not hold, the fourth a role that is not *)
(* configured.  Another has five workers and one role with minimum          *)
(* headcount 4 over four days, so that a day can be staffed above its       *)
(* target of four.  The last has ten workers on a single day, a first       *)
(* worker who requires two off-days, one night-eligible worker and four     *)
(* holders of a role with minimum headcount 4, so that only the patterns    *)
(* containing those five pass the coverage check.  One more has ten workers *)
(* and a role with minimum headcount 10, more than the largest team.  The   *)
(* last has two workers and two roles: the first worker holds only the role *)
(* of higher priority, the second holds both and prefers that same role.    *)
OneRole(min_per_day) == << [name |-> "A", min_per_day |-> min_per_day, priority |-> 1] >>

TwoRoles ==
  << [name |-> "B", min_per_day |-> 1, priority |-> 2],
     [name |-> "A", min_per_day |-> 1, priority |-> 1] >>

ScenarioVariants ==
  { [n |-> 4, n_days |-> 7, limit |-> 4, r0 |-> 2, r |-> 2, c0 |-> 0,
     mode |-> "none", rc |-> OneRole(1), scheme |-> "all"],
    [n |-> 4, n_days |-> 7, limit |-> 1, r0 |-> 8, r |-> 2, c0 |-> 2,
     mode |-> "none", rc |-> OneRole(1), scheme |-> "all"],
    [n |-> 4, n_days |-> 3, limit |-> 4, r0 |-> 1, r |-> 1, c0 |-> 0,
     mode |-> "none", rc |-> OneRole(1), scheme |-> "all"],
    [n |-> 4, n_days |-> 1, limit |-> 4, r0 |-> 0, r |-> 0, c0 |-> 0,
     mode |-> "both1", rc |-> OneRole(5), scheme |-> "all"],
    [n |-> 10, n_days |-> 1, limit |-> 4, r0 |-> 0, r |-> 0, c0 |-> 0,
     mode |-> "none", rc |-> OneRole(1), scheme |-> "all"],
    [n |-> 3, n_days |-> 2, limit |-> 2, r0 |-> 0, r |-> 1, c0 |-> 0,
     mode |-> "none", rc |-> TwoRoles, scheme |-> "overlap"],
    [n |-> 3, n_days |-> 1, limit |-> 2, r0 |-> 0, r |-> 0, c0 |-> 0,
     mode |-> "none", rc |-> TwoRoles, scheme |-> "all"],
    [n |-> 4, n_days |-> 1, limit |-> 2, r0 |-> 0, r |-> 0, c0 |-> 0,
     mode |-> "none", rc |-> TwoRoles, scheme |-> "prefs"],
    [n |-> 5, n_days |-> 4, limit |-> 4, r0 |-> 1, r |-> 1, c0 |-> 0,
     mode |-> "none", rc |-> OneRole(4), scheme |-> "all"],
    [n |-> 10, n_days |-> 1, limit |-> 4, r0 |-> 2, r |-> 0, c0 |-> 0,
     mode |-> "none", rc |-> OneRole(4), scheme |-> "rare"],
    [n |-> 10, n_days |-> 1, limit |-> 4, r0 |-> 0, r |-> 0, c0 |-> 0,
     mode |-> "none", rc |-> OneRole(10), scheme |-> "all"],
    [n |-> 2, n_days |-> 1, limit |-> 2, r0 |-> 0, r |-> 0, c0 |-> 0,
     mode |-> "none", rc |-> TwoRoles, scheme |-> "steal"] }

ScenarioInit ==
  \E v \in ScenarioVariants :
    Entry(v.n, FALSE, v.n_days, v.limit, v.r0, v.r, v.c0, v.mode, 0,
          [rc |-> v.rc, scheme |-> v.scheme])

(* ------------------------------ the steps ------------------------------ *)
(* solver.py 40-98: drop the rows without a name, return None when none is *)
(* left, otherwise resolve the leave and mandatory-attendance tables       *)
Preprocess ==
  /\ pc = "start"
  /\ LET kept == NamedRows(staff_df)
     IN /\ staff_df' = kept
        /\ IF Len(kept) = 0
             THEN /\ returned' = "None"
                  /\ pc' = "done"
                  /\ UNCHANGED << fixed_shifts, required_work_flags >>
             ELSE /\ fixed_shifts' = FixedShifts(Len(kept))
                  /\ required_work_flags' = RequiredWorkFlags(Len(kept))
                  /\ pc' = "patterns"
                  /\ UNCHANGED returned
  /\ UNCHANGED << inputs, day_patterns, current_paths, next_paths, d, tier_log,
                  output_data >>

(* mutant: an empty window ends the solve without a table *)
AfterPatterns_StopOnEmpty == IF num_days > 0 THEN "strict" ELSE "done"

(* solver.py 131, 308: the day loop is skipped when the window is empty *)
AfterPatterns == IF num_days > 0 THEN "strict" ELSE "assemble"

(* solver.py 99-122: the shuffled pattern list of every day, the initial path *)
GeneratePatterns ==
  /\ pc = "patterns"
  /\ \E k \in 0..(MaxSeed - 1) :
       day_patterns' = [day \in Days |-> ShuffleOutcome(DayPatternList(day), k)]
  /\ current_paths' = << InitialPath >>
  /\ d' = 0
  /\ pc' = AfterPatterns
  /\ UNCHANGED << staff_df, inputs, fixed_shifts, required_work_flags, next_paths,
                  tier_log, returned, output_data >>

(* solver.py 301-302 and the loop header: sort, keep the beam, next day *)
EndDay(successors, tier) ==
  /\ next_paths' = successors
  /\ current_paths' = Prune(successors)
  /\ tier_log' = Append(tier_log, tier)
  /\ d' = d + 1
  /\ pc' = IF d + 1 < num_days THEN "strict" ELSE "assemble"

(* mutant: the relaxed tier is tried whatever the strict tier produced *)
ExpandStrict_ThenAlwaysRelaxed ==
  /\ pc = "strict"
  /\ pc' = "relaxed"
  /\ UNCHANGED << staff_df, inputs, fixed_shifts, required_work_flags, day_patterns,
                  current_paths, next_paths, d, tier_log, returned, output_data >>

(* mutant: a strict attempt without successor leaves its days-off counts in the paths *)
ExpandStrict_LeakingCounters ==
  /\ pc = "strict"
  /\ LET successors == expand_paths(current_paths, UsePatterns(day_patterns[d]), d, TRUE)
     IN IF successors # << >>
          THEN EndDay(successors, "strict")
          ELSE /\ pc' = "relaxed"
               /\ current_paths' =
                    [i \in 1..Len(current_paths) |->
                       [current_paths[i] EXCEPT !.offs = [s \in Staff |-> @[s] + 1]]]
               /\ UNCHANGED << next_paths, d, tier_log >>
  /\ UNCHANGED << staff_df, inputs, fixed_shifts, required_work_flags, day_patterns,
                  returned, output_data >>

(* solver.py 131-143, 282: the strict tier *)
ExpandStrict ==
  /\ pc = "strict"
  /\ LET successors == expand_paths(current_paths, UsePatterns(day_patterns[d]), d, TRUE)
     IN IF successors # << >>
          THEN EndDay(successors, "strict")
          ELSE /\ pc' = "relaxed"
               /\ UNCHANGED << current_paths, next_paths, d, tier_log >>
  /\ UNCHANGED << staff_df, inputs, fixed_shifts, required_work_flags, day_patterns,
                  returned, output_data >>

(* mutant: the relaxed tier expands over the day's patterns before the     *)
(* must-work filter                                                        *)
ExpandRelaxed_UnfilteredPatterns ==
  /\ pc = "relaxed"
  /\ LET successors ==
           expand_paths(current_paths,
                        Prefix(get_possible_day_patterns(Avail(d), roles_config), PATTERN_CAP),
                        d, FALSE)
     IN IF successors # << >>
          THEN EndDay(successors, "relaxed")
          ELSE /\ pc' = "universal"
               /\ UNCHANGED << current_paths, next_paths, d, tier_log >>
  /\ UNCHANGED << staff_df, inputs, fixed_shifts, required_work_flags, day_patterns,
                  returned, output_data >>

(* solver.py 285-286: the relaxed tier *)
ExpandRelaxed ==
  /\ pc = "relaxed"
  /\ LET successors == expand_paths(current_paths, Prefix(day_patterns[d], PATTERN_CAP),
                                    d, FALSE)
     IN IF successors # << >>
          THEN EndDay(successors, "relaxed")
          ELSE /\ pc' = "universal"
               /\ UNCHANGED << current_paths, next_paths, d, tier_log >>
  /\ UNCHANGED << staff_df, inputs, fixed_shifts, required_work_flags, day_patterns,
                  returned, output_data >>

(* solver.py 289-299: the universal-off tier *)
UniversalOffDay ==
  /\ pc = "universal"
  /\ EndDay(UniversalOff(current_paths), "universal")
  /\ UNCHANGED << staff_df, inputs, fixed_shifts, required_work_flags, day_patterns,
                  returned, output_data >>

(* mutant: the table is built from the last retained path *)
Assemble_FromLastPath ==
  /\ pc = "assemble"
  /\ output_data' = AssembleTable(current_paths[Len(current_paths)])
  /\ returned' = "table"
  /\ pc' = "done"
  /\ UNCHANGED << staff_df, inputs, fixed_shifts, required_work_flags, day_patterns,
                  current_paths, next_paths, d, tier_log >>

(* solver.py 308-356: the table of the first retained path *)
Assemble ==
  /\ pc = "assemble"
  /\ output_data' = AssembleTable(current_paths[1])
  /\ returned' = "table"
  /\ pc' = "done"
  /\ UNCHANGED << staff_df, inputs, fixed_shifts, required_work_flags, day_patterns,
                  current_paths, next_paths, d, tier_log >>

Next ==
  \/ Preprocess
  \/ GeneratePatterns
  \/ ExpandStrict
  \/ ExpandRelaxed
  \/ UniversalOffDay
  \/ Assemble

Spec == Init /\ [][Next]_vars

(* the same program started from the small tables or from the larger windows *)
ScenarioSpec == (Init \/ ScenarioInit) /\ [][Next]_vars

(* The interpreter keeps executing solve_schedule_from_ui until it returns: *)
(* while the function has not returned, its position (pc, d) eventually     *)
(* changes.  Every loop of the function runs over a finite list, so no      *)
(* statement is executed forever.                                           *)
Positions == {"start", "patterns", "strict", "relaxed", "universal", "assemble", "done"}

Advance ==
  /\ pc # "done"
  /\ \E p \in Positions, k \in 0..(MaxDays + 1) :
       /\ << p, k >> # << pc, d >>
       /\ pc' = p
       /\ d' = k

FairSpec == Spec /\ WF_<<pc, d>>(Advance)

(* ============================== the claims ============================= *)
Done == pc = "done" /\ returned = "table"

(* a cell of the returned table shows the worker off *)
ShownOff(s, day) == output_data.cells[s][day] \in {SYM_OFF, SYM_REQ_OFF}

(* the input flags (worker, day) as mandatory-work / requests it off *)
FlaggedMandatory(s, day) ==
  s < Len(required_work_df) /\ required_work_df[s + 1][day + 1] \in {"True", SYM_MUST}

LeaveRequested(s, day) ==
  s < Len(holidays_df) /\ holidays_df[s + 1][day + 1] \in {"True", SYM_REQ_OFF}

(* the day has a candidate pattern that contains every mandatory worker *)
MandatorySetStaffable(day) ==
  \E i \in 1..Len(get_possible_day_patterns(Avail(day), roles_config)) :
     MustWork(day) \subseteq get_possible_day_patterns(Avail(day), roles_config)[i]

(* C1 as stated: every (worker, day) flagged mandatory-work is shown        *)
(* working in the returned schedule, whatever tier resolved the day.        *)
C1_MandatoryAlwaysWorks ==
  Done => \A s \in Staff, day \in Days : FlaggedMandatory(s, day) => ~ShownOff(s, day)

(* C1 amended: every (worker, day) flagged mandatory-work is shown working *)
(* in the returned schedule on every day that has at least one candidate    *)
(* pattern containing all of the day's mandatory workers.                   *)
C1_MandatoryWorksWhenStaffable ==
  Done => \A s \in Staff, day \in Days :
            (FlaggedMandatory(s, day) /\ MandatorySetStaffable(day)) => ~ShownOff(s, day)

C1_Witness ==
  /\ Done
  /\ \E s \in Staff, day \in Days :
       /\ FlaggedMandatory(s, day) /\ LeaveRequested(s, day)
       /\ MandatorySetStaffable(day)
       /\ ~ShownOff(s, day)
       /\ \E other \in Days : ShownOff(s, other)


(* length of the run of working days that ends on `day` in the returned     *)
(* table, a run reaching day 0 counted with the carried-in prior workdays   *)
RECURSIVE RunEndingAt(_, _)
RunEndingAt(s, day) ==
  IF ShownOff(s, day) THEN 0
  ELSE IF day = 0 THEN initial_cons[s] + 1
  ELSE RunEndingAt(s, day - 1) + 1

(* C2 as stated: in the returned schedule no run of working days, counted   *)
(* with the carried-in days, is longer than the worker's limit + 1, also    *)
(* when relaxed mode was used.                                              *)
C2_RunsWithinGraceAlways ==
  Done => \A s \in Staff, day \in Days : RunEndingAt(s, day) <= max_cons_limits[s] + 1

(* C2 amended: on every day that the strict tier resolved, the run of       *)
(* working days ending on that day (counted with the carried-in days) is at *)
(* most the worker's limit + 1; a day resolved by relaxed mode can exceed   *)
(* it.                                                                      *)
C2_RunsWithinGraceOnStrictDays ==
  Done => \A s \in Staff, day \in Days :
            tier_log[day + 1] = "strict" => RunEndingAt(s, day) <= max_cons_limits[s] + 1

C2_Witness ==
  /\ Done
  /\ \A day \in Days : tier_log[day + 1] = "strict"
  /\ \E s \in Staff, day \in Days :
       /\ day > 0
       /\ RunEndingAt(s, day) = max_cons_limits[s] + 1


(* the search is under way: the initial path exists and no table is built  *)
InSearch == pc \in {"strict", "relaxed", "universal", "assemble"}

(* a table with one cell for every worker and every day has been returned  *)
FullTableReturned ==
  /\ Done
  /\ DOMAIN output_data.cells = Staff
  /\ \A s \in Staff : DOMAIN output_data.cells[s] = Days
  /\ \A s \in Staff, day \in Days : output_data.cells[s][day] # ""

(* C3: with at least one worker and at least one day the solve never stops *)
(* early: the retained path set is never empty, the day index only moves   *)
(* from a day to the next one, up to num_days, and a full table is         *)
(* eventually returned.                                                    *)
C3_NeverStopsEarly ==
  /\ [](InSearch => (current_paths # << >> /\ d <= num_days
                     /\ Len(tier_log) = d
                     /\ (pc = "assemble" <=> d = num_days)))
  /\ [][InSearch => (d' = d \/ d' = d + 1)]_vars
  /\ ((pc = "patterns" /\ num_days >= 1) ~> FullTableReturned)

C3_Witness ==
  /\ FullTableReturned
  /\ num_days = MaxDays
  /\ \E i, j, k \in 1..Len(tier_log) :
       tier_log[i] = "strict" /\ tier_log[j] = "relaxed" /\ tier_log[k] = "universal"


(* number of cells of worker s that show the granted-off or requested-off   *)
(* symbol in the returned table                                             *)
OffDaysShown(s) == Cardinality({day \in Days : ShownOff(s, day)})

AllDaysStrict == \A i \in 1..Len(tier_log) : tier_log[i] = "strict"

RECURSIVE RunIn(_, _, _)
RunIn(W, s, day) ==
  IF s \notin W[day] THEN 0
  ELSE IF day = 0 THEN initial_cons[s] + 1
  ELSE RunIn(W, s, day - 1) + 1

(* W respects requested days off, mandatory attendance, every worker's     *)
(* consecutive-workday limit and the daily coverage minimums, and gives    *)
(* every worker exactly the required number of off days                    *)
Satisfies(W) ==
  /\ \A day \in Days : W[day] \subseteq Avail(day)
  /\ \A day \in Days : MustWork(day) \subseteq W[day]
  /\ \A day \in Days : Covers(W[day])
  /\ \A s \in Staff, day \in Days : RunIn(W, s, day) <= max_cons_limits[s]
  /\ \A s \in Staff : Cardinality({day \in Days : s \notin W[day]}) = req_offs[s]

JointlySatisfiable == \E W \in [Days -> SUBSET Staff] : Satisfies(W)

(* C5 as stated: when the inputs are jointly satisfiable, the returned     *)
(* schedule gives every worker exactly the required number of off days.    *)
C5_SatisfiableGivesExactOffs ==
  (Done /\ JointlySatisfiable) => \A s \in Staff : OffDaysShown(s) = req_offs[s]


(* C5 amended: when the inputs are jointly satisfiable and every day was   *)
(* resolved by the strict tier, the returned schedule gives every worker   *)
(* at least the required number of off days; it can give more.             *)
C5_SatisfiableStrictGivesAtLeastOffs ==
  (Done /\ JointlySatisfiable /\ AllDaysStrict)
    => \A s \in Staff : OffDaysShown(s) >= req_offs[s]

C5_Witness ==
  /\ Done
  /\ JointlySatisfiable
  /\ AllDaysStrict
  /\ num_days >= 2
  /\ \E s \in Staff : req_offs[s] > 0 /\ OffDaysShown(s) > req_offs[s]

(* the workers shown working on `day` in the returned table *)
ShownWorking(day) == {s \in Staff : ~ShownOff(s, day)}

(* C6: the shortage row carries the shortage marker on a day if and only   *)
(* if the coverage check fails on the set of workers who work on that day  *)
(* in the returned schedule, whatever tier resolved the day.               *)
C6_ShortageMarkerIffUncovered ==
  Done => \A day \in Days :
            /\ output_data.shortage[day] \in {"", SYM_SHORT}
            /\ output_data.shortage[day] = SYM_SHORT <=> ~Covers(ShownWorking(day))

C6_Witness ==
  /\ Done
  /\ \E day \in Days :
       /\ output_data.shortage[day] = SYM_SHORT
       /\ tier_log[day + 1] = "strict"
       /\ ShownWorking(day) # {}
  /\ \E day \in Days : output_data.shortage[day] = ""

(* C8: a worker table without any named worker makes the solve return the *)
(* no-result value at once: no leave or attendance table is resolved, no   *)
(* day pattern is generated and no path is created.                        *)
C8_NoWorkerReturnsNone ==
  (\A i \in 1..Len(staff_df) : staff_df[i].name \in {"", "NaN"}) =>
    /\ pc \in {"start", "done"}
    /\ pc = "done" => returned = "None"
    /\ fixed_shifts = << >> /\ required_work_flags = << >>
    /\ day_patterns = << >>
    /\ current_paths = << >> /\ next_paths = << >>
    /\ tier_log = << >>
    /\ output_data = << >>

C8_Witness ==
  /\ pc = "done"
  /\ returned = "None"
  /\ Len(holidays_df) >= 1
  /\ num_days >= 1

AvailabilityResolved ==
  \A s \in Staff, day \in Days :
     /\ required_work_flags[s][day] = FlaggedMandatory(s, day)
     /\ FlaggedMandatory(s, day) => (fixed_shifts[s][day] # SYM_REQ_OFF /\ s \in Avail(day))
     /\ ~FlaggedMandatory(s, day) =>
          /\ (fixed_shifts[s][day] = SYM_REQ_OFF) = LeaveRequested(s, day)
          /\ (s \in Avail(day)) = ~LeaveRequested(s, day)

C10_AvailabilityResolvedBeforeSearch ==
  /\ []((pc \in {"patterns", "strict", "relaxed", "universal", "assemble"} \/ Done)
          => AvailabilityResolved)
  /\ [][pc # "start" => (fixed_shifts' = fixed_shifts
                         /\ required_work_flags' = required_work_flags)]_vars

C10_Witness ==
  /\ pc = "strict"
  /\ d = 0
  /\ \E s \in Staff, day \in Days :
       FlaggedMandatory(s, day) /\ LeaveRequested(s, day) /\ s \in Avail(day)
  /\ \E s \in Staff, day \in Days :
       ~FlaggedMandatory(s, day) /\ LeaveRequested(s, day) /\ s \notin Avail(day)

(* C11: a (worker, day) requested off and not overridden by a mandatory    *)
(* mark is in no candidate pattern of the day, is working on that day in   *)
(* no path kept or produced by any tier, and shows the requested-off       *)
(* symbol in the returned table; a cell that is off without having been    *)
(* requested off shows the granted-off symbol.                             *)
C11_RequestedOffIsNeverWorked ==
  /\ \A s \in Staff, day \in Days :
       (pc \notin {"start", "patterns"} /\ LeaveRequested(s, day) /\ ~FlaggedMandatory(s, day)) =>
         /\ \A i \in 1..Len(day_patterns[day]) : s \notin day_patterns[day][i]
         /\ \A j \in 1..Len(current_paths) : s \notin current_paths[j].sched[day]
         /\ \A j \in 1..Len(next_paths) : s \notin next_paths[j].sched[day]
         /\ Done => output_data.cells[s][day] = SYM_REQ_OFF
  /\ Done => \A s \in Staff, day \in Days :
               (ShownOff(s, day) /\ ~LeaveRequested(s, day))
                 => output_data.cells[s][day] = SYM_OFF

C11_Witness ==
  /\ Done
  /\ \E s \in Staff, day \in Days :
       /\ LeaveRequested(s, day) /\ ~FlaggedMandatory(s, day)
       /\ Len(day_patterns[day]) >= 1
       /\ tier_log[day + 1] = "relaxed"
       /\ output_data.cells[s][day] = SYM_REQ_OFF
  /\ \E t \in Staff, day \in Days :
       ~LeaveRequested(t, day) /\ output_data.cells[t][day] = SYM_OFF

(* the inputs of the one-week scenario: 4 workers, all morning-eligible,   *)
(* night-eligible and capable of the single role (minimum headcount 1),    *)
(* 7 days, no leave request, no mandatory attendance, min morning = min    *)
(* night = 1                                                               *)
OneWeekScenario ==
  /\ num_staff = 4
  /\ num_days = 7
  /\ Len(roles_config) = 1
  /\ roles_config[1].min_per_day = 1
  /\ \A s \in Staff : {roles_config[1].name, "Morning", "Night"} \subseteq role_map[s]
  /\ \A s \in Staff, day \in Days : ~LeaveRequested(s, day) /\ ~FlaggedMandatory(s, day)
  /\ constraints.min_morning = 1
  /\ constraints.min_night = 1

(* C12: in the one-week scenario the returned schedule has on every one of *)
(* the 7 days a working set that passes the coverage check, and no day     *)
(* carries the shortage marker.                                            *)
C12_OneWeekFullyStaffed ==
  (Done /\ OneWeekScenario) =>
     \A day \in Days : /\ Covers(ShownWorking(day))
                       /\ output_data.shortage[day] = ""

C12_Witness ==
  /\ Done
  /\ OneWeekScenario
  /\ \E day \in Days : tier_log[day + 1] = "relaxed"
  /\ \A day \in Days : Cardinality(ShownWorking(day)) >= 2

(* some worker's required off-days exceed the number of days of the window *)
OverRequired(s) == req_offs[s] > num_days

(* C13 as stated: a worker whose required off-days exceed the window is    *)
(* shown off on every day of the returned schedule.                        *)
C13_OverRequiredWorkerAlwaysOff ==
  Done => \A s \in Staff : OverRequired(s) => \A day \in Days : ShownOff(s, day)

(* C13 amended: when some worker's required off-days exceed the window,    *)
(* the solve still returns a complete table, and no day of it is resolved  *)
(* by the strict tier (every day falls back to the relaxed tier or to      *)
(* universal-off).                                                         *)
C13_OverRequiredSolveFallsBackAndReturns ==
  /\ [](((\E s \in Staff : OverRequired(s)) /\ pc \notin {"start", "patterns"})
          => \A i \in 1..Len(tier_log) : tier_log[i] # "strict")
  /\ (pc = "patterns" /\ \E s \in Staff : OverRequired(s)) ~> FullTableReturned

C13_Witness ==
  /\ Done
  /\ num_days >= 2
  /\ \E s \in Staff :
       /\ OverRequired(s)
       /\ \E day \in Days : ~ShownOff(s, day)
       /\ \E day \in Days : ShownOff(s, day)
  /\ \E i \in 1..Len(tier_log) : tier_log[i] = "relaxed"

(* fewer workers are available on the day than the minimum team size *)
TooFewAvailable(day) == Cardinality(Avail(day)) < MinTeamSize(roles_config)

(* C14: a day with fewer available workers than the minimum team size is   *)
(* resolved by a fallback tier, the solve returns a complete schedule, and *)
(* the shortage row carries the shortage marker for that day.              *)
C14_UnderstaffedDayFallsBackAndIsMarked ==
  /\ \A i \in 1..Len(tier_log) : TooFewAvailable(i - 1) => tier_log[i] # "strict"
  /\ (Done /\ \E day \in Days : TooFewAvailable(day)) =>
       /\ FullTableReturned
       /\ \A day \in Days : TooFewAvailable(day) => output_data.shortage[day] = SYM_SHORT

(* the successors each tier computes for the day being expanded *)
StrictSuccessors == expand_paths(current_paths, UsePatterns(day_patterns[d]), d, TRUE)

RelaxedSuccessors ==
  expand_paths(current_paths, Prefix(day_patterns[d], PATTERN_CAP), d, FALSE)

(* C15: on each day the tiers are tried in the order strict, relaxed,      *)
(* universal-off: the relaxed tier is entered only from the strict tier    *)
(* and only when it produced no successor, universal-off only from the     *)
(* relaxed tier and only when it produced none either, and the successors  *)
(* passed to pruning are those of exactly one tier, the first that         *)
(* produced any.                                                           *)
C15_TiersInOrder ==
  /\ [][pc' = "relaxed" => (pc = "strict" /\ d' = d /\ StrictSuccessors = << >>)]_vars
  /\ [][pc' = "universal" =>
          (pc = "relaxed" /\ d' = d /\ StrictSuccessors = << >> /\ RelaxedSuccessors = << >>)]_vars
  /\ [][d' = d + 1 =>
          /\ pc \in {"strict", "relaxed", "universal"}
          /\ tier_log' = Append(tier_log, pc)
          /\ pc = "strict" => next_paths' = StrictSuccessors
          /\ StrictSuccessors # << >> => (pc = "strict" /\ next_paths' = StrictSuccessors)
          /\ (StrictSuccessors = << >> /\ RelaxedSuccessors # << >>)
               => (pc = "relaxed" /\ next_paths' = RelaxedSuccessors)
          /\ (StrictSuccessors = << >> /\ RelaxedSuccessors = << >>)
               => (pc = "universal" /\ next_paths' = UniversalOff(current_paths))]_vars

C15_Witness ==
  /\ Done
  /\ \E i \in 1..Len(tier_log) : tier_log[i] = "strict"
  /\ \E i \in 1..Len(tier_log) : tier_log[i] = "relaxed"
  /\ \E i \in 1..Len(tier_log) : tier_log[i] = "universal"

(* the scores of the day's expansions that pruning kept / discarded *)
RetainedScores == {current_paths[i].score : i \in 1..Len(current_paths)}

DiscardedScores ==
  LET kept == SeqRange(current_paths)
  IN {next_paths[j].score : j \in {k \in 1..Len(next_paths) : next_paths[k] \notin kept}}

(* C16: after every day the retained set holds at most BEAM_WIDTH paths,   *)
(* all of them expansions of that day, as many as the width allows, and no *)
(* discarded expansion has a strictly lower accumulated score than a       *)
(* retained one.                                                           *)
C16_BeamKeepsLowestScores ==
  /\ Len(current_paths) <= BEAM_WIDTH
  /\ tier_log # << >> =>
       /\ Len(current_paths) = Min2(Len(next_paths), BEAM_WIDTH)
       /\ SeqRange(current_paths) \subseteq SeqRange(next_paths)
       /\ Cardinality(SeqRange(current_paths)) = Len(current_paths)
       /\ \A i \in 1..(Len(current_paths) - 1) :
            current_paths[i].score <= current_paths[i + 1].score
       /\ \A x \in RetainedScores, y \in DiscardedScores : x <= y

C16_Witness ==
  /\ Len(next_paths) > BEAM_WIDTH
  /\ Len(current_paths) = BEAM_WIDTH
  /\ \E x \in RetainedScores, y \in DiscardedScores : x < y
  /\ \E j \in 1..BEAM_WIDTH : next_paths[j] \notin SeqRange(current_paths)

(* the subsets of the available workers that claim C17 describes *)
SubsetsOfTeamSize(avail, rc) ==
  {P \in SUBSET avail :
     /\ Cardinality(P) >= Max2(2, SumSeq([i \in 1..Len(rc) |-> rc[i].min_per_day]))
     /\ Cardinality(P) <= Min2(Cardinality(avail), 9)}

(* C17: get_possible_day_patterns returns exactly the subsets of the       *)
(* available workers whose size lies between max(2, sum of the roles'      *)
(* minimum headcounts) and min(number of available workers, 9), each       *)
(* exactly once, and nothing when fewer workers are available than the     *)
(* minimum team size; the candidate list of a day without mandatory        *)
(* workers is a rearrangement of that output.                              *)
C17_PatternsAreTheSubsetsOfTeamSize ==
  (pc \notin {"start", "patterns"} /\ returned # "None") =>
    \A day \in Days :
      LET out == get_possible_day_patterns(Avail(day), roles_config)
      IN /\ SeqRange(out) = SubsetsOfTeamSize(Avail(day), roles_config)
         /\ Cardinality(SeqRange(out)) = Len(out)
         /\ Cardinality(Avail(day))
              < Max2(2, SumSeq([i \in 1..Len(roles_config) |-> roles_config[i].min_per_day]))
              => out = << >>
         /\ MustWork(day) = {} =>
              /\ SeqRange(day_patterns[day]) = SeqRange(out)
              /\ Len(day_patterns[day]) = Len(out)

C17_Witness ==
  /\ pc = "strict"
  /\ Cardinality(Avail(0)) = 10
  /\ Len(day_patterns[0]) = 1012
  /\ \A i \in 1..Len(day_patterns[0]) : Cardinality(day_patterns[0][i]) \in 2..9
  /\ \E i \in 1..Len(day_patterns[0]) : Cardinality(day_patterns[0][i]) = 9

(* C18: the candidate list of a day with mandatory workers is the          *)
(* generator output, for the role configuration passed to the solve,       *)
(* restricted to the subsets that contain every mandatory worker; when     *)
(* that restriction is empty it is the unrestricted generator output for   *)
(* the same available workers and the same role configuration.             *)
C18_MandatoryFilterFallsBackToSameConfig ==
  (pc \notin {"start", "patterns"} /\ returned # "None") =>
    \A day \in Days :
      MustWork(day) # {} =>
        LET gen == SubsetsOfTeamSize(Avail(day), roles_config)
            kept == {P \in gen : MustWork(day) \subseteq P}
            expected == IF kept # {} THEN kept ELSE gen
        IN /\ SeqRange(day_patterns[day]) = expected
           /\ Len(day_patterns[day]) = Cardinality(expected)

(* The coverage test as claim C19 words it.  RankOrder is the order in      *)
(* which the roles are processed: ascending priority rank, roles of equal   *)
(* rank in their configured order.  TakenAfter[k] tells whether the first k *)
(* roles each found enough eligible workers not taken by an earlier role,   *)
(* and which workers they took (the first ones in subset order).            *)
RankOrder(rc) ==
  CHOOSE ord \in [1..Len(rc) -> 1..Len(rc)] :
    /\ \A i, j \in 1..Len(rc) : i # j => ord[i] # ord[j]
    /\ \A i, j \in 1..Len(rc) :
         i < j => \/ rc[ord[i]].priority < rc[ord[j]].priority
                  \/ rc[ord[i]].priority = rc[ord[j]].priority /\ ord[i] < ord[j]

TakenAfter(P, rm, rc) ==
  LET ord == RankOrder(rc)
      T[k \in 0..Len(rc)] ==
        IF k = 0 THEN [ok |-> TRUE, taken |-> {}]
        ELSE LET role == rc[ord[k]]
                 eligible == {s \in P \ T[k - 1].taken : role.name \in rm[s]}
                 first == {s \in eligible :
                             Cardinality({t \in eligible : t < s}) < role.min_per_day}
             IN [ok |-> T[k - 1].ok /\ Cardinality(eligible) >= role.min_per_day,
                 taken |-> T[k - 1].taken \cup first]
  IN T[Len(rc)]

CoverageAsClaimed(P) ==
  /\ Cardinality({s \in P : "Night" \in role_map[s]}) >= constraints.min_night
  /\ Cardinality({s \in P : "Morning" \in role_map[s]}) >= constraints.min_morning
  /\ TakenAfter(P, role_map, roles_config).ok

(* C19: can_cover_required_roles is true of a worker subset exactly when   *)
(* it has at least the minimum night headcount of night-eligible workers,  *)
(* at least the minimum morning headcount of morning-eligible workers,     *)
(* and every role, taken in ascending priority rank, finds its minimum     *)
(* headcount among the eligible workers no earlier role has taken; the     *)
(* shortage marker of the returned table follows that test.                *)
C19_CoverageIsNightMorningAndGreedyRoles ==
  (pc \notin {"start", "patterns"} /\ returned # "None") =>
    /\ \A P \in SUBSET Staff :
         can_cover_required_roles(P, role_map, constraints, roles_config)
           <=> CoverageAsClaimed(P)
    /\ Done => \A day \in Days :
                 output_data.shortage[day] = SYM_SHORT <=> ~CoverageAsClaimed(ShownWorking(day))

C19_Witness ==
  /\ Done
  /\ Len(roles_config) = 2
  /\ roles_config[1].priority > roles_config[2].priority
  /\ \E day \in Days :
       LET P == ShownWorking(day)
       IN /\ \E a, b \in P : /\ a # b
                              /\ roles_config[1].name \in role_map[a]
                              /\ roles_config[2].name \in role_map[b]
          /\ \E s \in P : "Night" \in role_map[s]
          /\ \E s \in P : "Morning" \in role_map[s]
          /\ ~CoverageAsClaimed(P)
          /\ output_data.shortage[day] = SYM_SHORT

(* the configured roles a worker is capable of, and among them the one     *)
(* with the highest priority-rank number                                   *)
CapableRoles(s) == {i \in 1..Len(roles_config) : roles_config[i].name \in role_map[s]}

LastRankedRole(s) ==
  roles_config[CHOOSE i \in CapableRoles(s) :
                 \A j \in CapableRoles(s) :
                    \/ roles_config[j].priority < roles_config[i].priority
                    \/ roles_config[j].priority = roles_config[i].priority /\ j <= i].name

(* what claim C20 says of a labelling of the working set P: every worker   *)
(* of P and no other has a label; a label is a configured role the worker  *)
(* is capable of, or the normal-duty label for a worker capable of none;   *)
(* per role, at most its minimum headcount of workers (those taken by the  *)
(* preference and quota passes) hold it without it being their capable     *)
(* role of highest priority-rank number.                                   *)
LabelsAsClaimed(P, labels) ==
  /\ DOMAIN labels = P
  /\ \A s \in P :
       IF CapableRoles(s) = {} THEN labels[s] = SYM_NORMAL
       ELSE \E i \in CapableRoles(s) : labels[s] = roles_config[i].name
  /\ \A i \in 1..Len(roles_config) :
       Cardinality({s \in P : /\ labels[s] = roles_config[i].name
                              /\ LastRankedRole(s) # roles_config[i].name})
         <= roles_config[i].min_per_day

best_path == current_paths[1]

(* the days of the window on which the matrix of a path has the worker off *)
OffDaysInMatrix(path, s) == {day \in Days : s \notin path.sched[day]}

(* C21: in the returned table every worker's summary cell is a pair        *)
(* (worked, off) whose sum is the number of days of the window; off is the *)
(* number of days on which the matrix of the chosen path has the worker    *)
(* off, which is also that path's days-off counter of the worker.          *)
C21_SummaryCountsMatrixOffDays ==
  Done =>
    \A s \in Staff :
      /\ output_data.summary[s][1] + output_data.summary[s][2] = num_days
      /\ output_data.summary[s][1] >= 0
      /\ output_data.summary[s][2] = Cardinality(OffDaysInMatrix(best_path, s))
      /\ output_data.summary[s][2] = best_path.offs[s]

C21_Witness ==
  /\ Done
  /\ \E s \in Staff :
       /\ output_data.summary[s][1] > 0
       /\ output_data.summary[s][2] > 0
       /\ \E day \in Days : output_data.cells[s][day] = SYM_REQ_OFF
  /\ \E i \in 1..Len(tier_log) : tier_log[i] = "universal"

(* the two hard constraints, read off the counters of a path that has been *)
(* extended over the given day                                             *)
WithinGrace(path, day) ==
  \A s \in path.sched[day] : path.cons[s] <= max_cons_limits[s] + 1

OffsStillReachable(path, day) ==
  \A s \in Staff : path.offs[s] + (num_days - 1 - day) >= req_offs[s]

(* the same two constraints for a pair not yet expanded *)
PairAdmissible(path, pat, day) ==
  /\ \A s \in pat : path.cons[s] + 1 <= max_cons_limits[s] + 1
  /\ \A s \in Staff :
       path.offs[s] + (IF s \in pat THEN 0 ELSE 1) + (num_days - 1 - day) >= req_offs[s]

AdmissiblePairs(paths, patterns, day) ==
  {pr \in (1..Len(paths)) \X (1..Len(patterns)) :
     PairAdmissible(paths[pr[1]], patterns[pr[2]], day)}

(* C22: every successor of a strict expansion on day d keeps each worker   *)
(* of day d within the limit plus one of consecutive workdays (carried-in  *)
(* days included) and keeps every worker's required off-days reachable in  *)
(* the days that remain; the pairs that violate either give no successor,  *)
(* the others give one each.                                               *)
C22_StrictSuccessorsMeetHardConstraints ==
  [][pc = "strict" =>
       LET offered == UsePatterns(day_patterns[d])
           admissible == AdmissiblePairs(current_paths, offered, d)
       IN /\ pc' = "relaxed" => admissible = {}
          /\ d' = d + 1 =>
               /\ \A i \in 1..Len(next_paths') :
                    WithinGrace(next_paths'[i], d) /\ OffsStillReachable(next_paths'[i], d)
               /\ Len(next_paths') = Cardinality(admissible)
               /\ admissible # {}]_vars

C22_Witness ==
  /\ tier_log # << >>
  /\ tier_log[Len(tier_log)] = "strict"
  /\ Len(next_paths) < Len(UsePatterns(day_patterns[d - 1]))
  /\ \E i \in 1..Len(next_paths) : \E s \in next_paths[i].sched[d - 1] :
       next_paths[i].cons[s] = max_cons_limits[s] + 1
  /\ \E i \in 1..Len(next_paths) : \E s \in Staff :
       /\ req_offs[s] > 0
       /\ next_paths[i].offs[s] + (num_days - d) = req_offs[s]

(* the penalty the relaxed tier adds for what strict mode would have       *)
(* rejected: 100000 per worker more than one day past their limit and      *)
(* 10000000 when some worker's required off-days are out of reach          *)
(* (scores are kept multiplied by num_days)                                *)
RelaxedSurcharge(path, pat, day) ==
  num_days * ( 100000 * Cardinality({s \in pat : path.cons[s] + 1 > max_cons_limits[s] + 1})
               + (IF \E s \in Staff :
                       path.offs[s] + (IF s \in pat THEN 0 ELSE 1) + (num_days - 1 - day)
                         < req_offs[s]
                    THEN 10000000 ELSE 0) )

(* C23: the relaxed tier rejects nothing: each pair of a current path and  *)
(* an offered pattern gives exactly one successor, whose score carries a   *)
(* finite surcharge for each hard violation of strict mode; so the relaxed *)
(* tier is empty, and universal-off is reached, only on a day without any  *)
(* candidate pattern.                                                      *)
C23_RelaxedNeverRejects ==
  [][pc = "relaxed" =>
       LET offered == Prefix(day_patterns[d], PATTERN_CAP)
           m == Len(offered)
       IN /\ current_paths # << >>
          /\ pc' = "universal" => day_patterns[d] = << >>
          /\ d' = d + 1 =>
               /\ m > 0
               /\ Len(next_paths') = Len(current_paths) * m
               /\ \A i \in 1..Len(current_paths), j \in 1..m :
                    LET succ == next_paths'[(i - 1) * m + j]
                    IN /\ succ.sched = [current_paths[i].sched EXCEPT ![d] = offered[j]]
                       /\ succ.score = current_paths[i].score
                                         + Penalty(current_paths[i], offered[j], d, TRUE)
                                         + RelaxedSurcharge(current_paths[i], offered[j], d)]_vars

C23_Witness ==
  /\ tier_log # << >>
  /\ tier_log[Len(tier_log)] = "relaxed"
  /\ \E i \in 1..Len(next_paths) : ~WithinGrace(next_paths[i], d - 1)
  /\ \E i \in 1..Len(next_paths) : ~OffsStillReachable(next_paths[i], d - 1)

(* C24: on a universal-off day each current path has exactly one           *)
(* successor: nobody works on that day, the score is the parent's plus the *)
(* fixed penalty (kept multiplied by num_days), every consecutive-workdays *)
(* counter is 0 and every days-off and consecutive-days-off counter is the *)
(* parent's plus 1; the retained paths are no more than there were.        *)
C24_UniversalOffExtendsEveryPathOnce ==
  [][pc = "universal" =>
       /\ d' = d + 1
       /\ Len(next_paths') = Len(current_paths)
       /\ Len(current_paths') <= Len(current_paths)
       /\ \A j \in 1..Len(current_paths) :
            LET parent == current_paths[j]
                succ == next_paths'[j]
            IN /\ succ.sched[d] = {}
               /\ \A day \in Days \ {d} : succ.sched[day] = parent.sched[day]
               /\ succ.score = parent.score + num_days * UNIVERSAL_OFF_PENALTY
               /\ \A s \in Staff :
                    /\ succ.cons[s] = 0
                    /\ succ.offs[s] = parent.offs[s] + 1
                    /\ succ.off_cons[s] = parent.off_cons[s] + 1]_vars

C24_Witness ==
  /\ d >= 2
  /\ Len(tier_log) = d
  /\ tier_log[d] = "universal"
  /\ tier_log[d - 1] # "universal"
  /\ \E j \in 1..Len(next_paths) : \E s \in next_paths[j].sched[d - 2] :
       /\ next_paths[j].cons[s] = 0
       /\ next_paths[j].offs[s] >= 1
  /\ \E j \in 1..Len(next_paths) : \E s \in Staff : next_paths[j].off_cons[s] >= 2

(* the returned table shows exactly the work/off matrix of the path *)
TableShows(path) ==
  \A s \in Staff, day \in Days : ShownOff(s, day) <=> s \notin path.sched[day]

(* C25: the returned schedule is that of a path retained after the last    *)
(* day whose accumulated score no retained path undercuts.                 *)
C25_ReturnedPathHasLowestScore ==
  Done =>
    \E i \in 1..Len(current_paths) :
      /\ TableShows(current_paths[i])
      /\ \A j \in 1..Len(current_paths) : current_paths[i].score <= current_paths[j].score

C25_Witness ==
  /\ Done
  /\ num_days > 0
  /\ \E j \in 1..Len(current_paths) :
       /\ current_paths[j].score > current_paths[1].score
       /\ ~TableShows(current_paths[j])

(* an assignment of distinct eligible workers of P that gives every role   *)
(* its minimum headcount exists, and P has the morning and night minimums  *)
HasExactAssignment(P) ==
  /\ Cardinality({s \in P : "Night" \in role_map[s]}) >= constraints.min_night
  /\ Cardinality({s \in P : "Morning" \in role_map[s]}) >= constraints.min_morning
  /\ \E g \in [P -> RoleNames(roles_config) \cup {"nashi"}] :
       /\ \A s \in P : g[s] = "nashi" \/ g[s] \in role_map[s]
       /\ \A i \in 1..Len(roles_config) :
            Cardinality({s \in P : g[s] = roles_config[i].name})
              >= roles_config[i].min_per_day

(* two one-person roles; a worker who holds both stands, in worker order,  *)
(* before a worker who holds only the role that is checked first           *)
AdversarialOverlap ==
  /\ Len(roles_config) = 2
  /\ \A i \in 1..2 : roles_config[i].min_per_day = 1
  /\ \E first, second \in RoleNames(roles_config) :
       /\ SortedRoles(roles_config)[1].name = first
       /\ second # first
       /\ \E a, b \in Staff :
            /\ a < b
            /\ {first, second, "Morning", "Night"} \subseteq role_map[a]
            /\ {first, "Morning", "Night"} \subseteq role_map[b]
            /\ second \notin role_map[b]
            /\ \A s \in Staff : s < b /\ s # a => first \notin role_map[s]

(* C26: the coverage check is not an exact matching test.  With the        *)
(* overlapping capabilities above there is a worker subset that has an     *)
(* assignment of distinct eligible workers meeting every role's minimum    *)
(* and the morning and night minimums, and for which                       *)
(* can_cover_required_roles is false.                                      *)
C26_GreedyCoverageHasFalseNegatives ==
  (pc # "start" /\ returned # "None" /\ AdversarialOverlap) =>
    \E P \in SUBSET Staff :
      /\ HasExactAssignment(P)
      /\ ~can_cover_required_roles(P, role_map, constraints, roles_config)

C26_Witness ==
  /\ Done
  /\ AdversarialOverlap
  /\ \E day \in Days :
       /\ HasExactAssignment(ShownWorking(day))
       /\ ~can_cover_required_roles(ShownWorking(day), role_map, constraints, roles_config)
       /\ output_data.shortage[day] = SYM_SHORT

(* the declared preferred role of a worker and the minimum headcount of a role *)
PreferredRole(s) == staff_df[s + 1].pref

MinPerDay(r) ==
  roles_config[CHOOSE i \in 1..Len(roles_config) : roles_config[i].name = r].min_per_day

(* the workers of P that receive their preferred role, visiting P in       *)
(* ascending worker order: the role is configured, the worker holds it,    *)
(* and fewer workers than its minimum headcount have received it so far    *)
GivenPreferred(P) ==
  LET pool == AscSeq(P)
      G[k \in 0..Len(pool)] ==
        IF k = 0 THEN {}
        ELSE LET s == pool[k]
                 r == PreferredRole(s)
             IN IF /\ r \in RoleNames(roles_config)
                   /\ r \in role_map[s]
                   /\ Cardinality({t \in G[k - 1] : PreferredRole(t) = r}) < MinPerDay(r)
                  THEN G[k - 1] \cup {s}
                  ELSE G[k - 1]
  IN G[Len(pool)]

(* C27: the preference pass visits the working set in order and gives a    *)
(* worker the declared preferred role exactly when the role is configured, *)
(* the worker holds it and fewer workers than its minimum headcount have   *)
(* received it in this pass; each such assignment lowers the role's        *)
(* remaining demand by one, and after the quota pass no role has been      *)
(* given to more workers than its minimum headcount.  A worker served by   *)
(* the preference pass shows that role in the returned table.              *)
C27_PreferencePassHonoursDemand ==
  (pc \notin {"start", "patterns"} /\ returned # "None") =>
    /\ \A P \in SUBSET Staff :
         LET p1 == AfterPreferencePass(P, role_map, roles_config, staff_df)
             p2 == AfterQuotaPass(P, role_map, roles_config, staff_df)
         IN /\ DOMAIN p1.asg = GivenPreferred(P)
            /\ \A s \in GivenPreferred(P) : p1.asg[s] = PreferredRole(s)
            /\ \A r \in RoleNames(roles_config) :
                 /\ p1.demand[r] = MinPerDay(r)
                      - Cardinality({s \in GivenPreferred(P) : PreferredRole(s) = r})
                 /\ Cardinality({s \in DOMAIN p2.asg : p2.asg[s] = r}) <= MinPerDay(r)
            /\ \A s \in GivenPreferred(P) : p2.asg[s] = PreferredRole(s)
    /\ Done => \A day \in Days : \A s \in GivenPreferred(ShownWorking(day)) :
                 output_data.cells[s][day] = PreferredRole(s)

C27_Witness ==
  /\ Done
  /\ \E day \in Days :
       LET P == ShownWorking(day)
       IN /\ \E s \in GivenPreferred(P) : output_data.cells[s][day] = PreferredRole(s)
          /\ \E s \in P \ GivenPreferred(P) :
               /\ PreferredRole(s) \in RoleNames(roles_config) \cap role_map[s]
               /\ \E t \in GivenPreferred(P) : t < s /\ PreferredRole(t) = PreferredRole(s)
          /\ \E s \in P \ GivenPreferred(P) :
               PreferredRole(s) \in RoleNames(roles_config) \ role_map[s]
          /\ \E s \in P \ GivenPreferred(P) :
               PreferredRole(s) \notin RoleNames(roles_config) \cup {"", "nashi"}

(* the pattern staffs the day above max(4, morning target + night target) *)
HasSurplus(pat, day) ==
  Cardinality(pat) > Max2(MIN_BODIES, daily_target(day).asa + daily_target(day).yoru)

(* the day lies in the last third of the window: day >= 2N/3 *)
InLastThird(day) == 3 * day >= 2 * num_days

(* C28: the weight per surplus worker of an expansion is 0 on a priority   *)
(* weekday whatever the tightness; on any other weekday it is 10000 when   *)
(* the day lies in the last third of the window and the tightness-based    *)
(* 500, 1000 or 5000 before that, for every window length.                 *)
C28_SurplusWeightFollowsLastThird ==
  pc \in {"strict", "relaxed"} =>
    \A i \in 1..Len(current_paths), j \in 1..Len(day_patterns[d]) :
      LET pat == day_patterns[d][j]
          w == SurplusPenaltyWeight(NewOffs(current_paths[i], pat), d)
      IN HasSurplus(pat, d) =>
           IF Weekday(d) \in priority_days THEN w = 0
           ELSE IF InLastThird(d) THEN w = 10000
           ELSE w \in {500, 1000, 5000}

(* succ extends parent over the day with the pattern: only the day's       *)
(* column of the matrix differs, and the counters are the parent's         *)
(* counters advanced by the pattern                                        *)
ExtendsBy(succ, parent, pat, day) ==
  /\ succ.sched[day] = pat
  /\ \A other \in Days \ {day} : succ.sched[other] = parent.sched[other]
  /\ \A s \in Staff :
       /\ succ.cons[s] = (IF s \in pat THEN parent.cons[s] + 1 ELSE 0)
       /\ succ.offs[s] = parent.offs[s] + (IF s \in pat THEN 0 ELSE 1)
       /\ succ.off_cons[s] = (IF s \in pat THEN 0 ELSE parent.off_cons[s] + 1)
  /\ succ.score >= parent.score

(* C29: an expansion over day d changes only column d of the successor's   *)
(* matrix (earlier columns are the parent's, later columns stay all-off)   *)
(* and computes every successor from the parent as it was before the       *)
(* expansion, whatever was expanded before it; a tier that yields no       *)
(* successor leaves the current paths as they were, so the relaxed and     *)
(* universal-off tiers start from the paths the strict tier was given.     *)
C29_ExpansionLeavesParentsAlone ==
  /\ [][(pc \in {"strict", "relaxed"} /\ d' = d + 1) =>
          \A k \in 1..Len(next_paths') :
            /\ \E i \in 1..Len(current_paths), pat \in SeqRange(day_patterns[d]) :
                 ExtendsBy(next_paths'[k], current_paths[i], pat, d)
            /\ \A later \in Days : later > d => next_paths'[k].sched[later] = {}]_vars
  /\ [][(pc = "strict" /\ pc' = "relaxed") => (current_paths' = current_paths /\ d' = d)]_vars
  /\ [][(pc = "relaxed" /\ pc' = "universal") =>
          (current_paths' = current_paths /\ d' = d)]_vars
  /\ [][pc = "universal" =>
          \A k \in 1..Len(next_paths') :
            \E i \in 1..Len(current_paths) :
              ExtendsBy(next_paths'[k], current_paths[i], {}, d)]_vars

C29_Witness ==
  /\ d >= 2
  /\ d < num_days
  /\ Len(tier_log) = d
  /\ tier_log[d] = "relaxed"
  /\ Len(next_paths) >= 2
  /\ \E k \in 1..Len(next_paths) :
       /\ next_paths[k].sched[d - 2] # {}
       /\ next_paths[k].sched[d - 1] # {}
       /\ next_paths[k].sched[d] = {}

(* the day's candidate list holds a pattern that passes the coverage check *)
SomeFeasible(patterns) == \E j \in 1..Len(patterns) : Covers(patterns[j])

(* C30: whenever the candidate list of the day holds a coverage-feasible   *)
(* pattern, the list offered to the strict tier holds one and so does the  *)
(* list offered to the relaxed tier, and neither list has more than 300    *)
(* patterns.                                                               *)
C30_EveryTierIsOfferedAFeasiblePattern ==
  /\ pc = "strict" =>
       /\ Len(UsePatterns(day_patterns[d])) <= PATTERN_CAP
       /\ SomeFeasible(day_patterns[d]) => SomeFeasible(UsePatterns(day_patterns[d]))
  /\ pc = "relaxed" =>
       /\ Len(Prefix(day_patterns[d], PATTERN_CAP)) <= PATTERN_CAP
       /\ SomeFeasible(day_patterns[d]) => SomeFeasible(Prefix(day_patterns[d], PATTERN_CAP))

(* the days up to and including `day` that end the latest run of the path: *)
(* the last day on which the worker was off (resp. worked), or -1          *)
LastOffDay(path, s, day) ==
  LET offdays == {e \in 0..day : s \notin path.sched[e]}
  IN IF offdays = {} THEN -1 ELSE CHOOSE e \in offdays : \A f \in offdays : f <= e

LastWorkDay(path, s, day) ==
  LET workdays == {e \in 0..day : s \in path.sched[e]}
  IN IF workdays = {} THEN -1 ELSE CHOOSE e \in workdays : \A f \in workdays : f <= e

(* the counters of a path that has been extended up to `day`, read off its matrix *)
CountersMatchMatrix(path, day) ==
  \A s \in Staff :
    /\ path.offs[s] = Cardinality({e \in 0..day : s \notin path.sched[e]})
    /\ path.cons[s] =
         (IF s \notin path.sched[day] THEN 0
          ELSE (day - LastOffDay(path, s, day))
                 + (IF LastOffDay(path, s, day) = -1 THEN initial_cons[s] ELSE 0))
    /\ path.off_cons[s] =
         (IF s \in path.sched[day] THEN 0 ELSE day - LastWorkDay(path, s, day))

(* C31: for every path retained after a day, whatever tier produced it,    *)
(* and every worker: the days-off counter is the number of off days so far *)
(* in the matrix; the consecutive-workdays counter is 0 when the worker is *)
(* off on that day and otherwise the length of the run of worked days      *)
(* ending there, plus the carried-in count when the worker has worked      *)
(* every day so far; the consecutive-days-off counter is 0 when the worker *)
(* works on that day and otherwise the length of the run of off days       *)
(* ending there.                                                           *)
C31_CountersMatchMatrix ==
  (pc \in {"strict", "relaxed", "universal", "assemble", "done"} /\ d >= 1
     /\ returned # "None") =>
    /\ \A i \in 1..Len(current_paths) : CountersMatchMatrix(current_paths[i], d - 1)
    /\ \A i \in 1..Len(next_paths) : CountersMatchMatrix(next_paths[i], d - 1)

C31_Witness ==
  /\ d = 3
  /\ \E i \in 1..Len(tier_log) : tier_log[i] = "universal"
  /\ \E i \in 1..Len(tier_log) : tier_log[i] = "relaxed"
  /\ \E i \in 1..Len(current_paths), s \in Staff :
       /\ initial_cons[s] > 0
       /\ current_paths[i].cons[s] > 0
  /\ \E i \in 1..Len(current_paths), s \in Staff : current_paths[i].off_cons[s] >= 2

(* the weekend days up to `day` on which the matrix has the worker off and *)
(* the worker had not requested the day off                                *)
WeekendOffDays(path, s, day) ==
  {e \in 0..day : /\ Weekday(e) >= WEEKEND_FROM
                  /\ s \notin path.sched[e]
                  /\ fixed_shifts[s][e] # SYM_REQ_OFF}

WeekendCounterMatchesMatrix(path, day) ==
  \A s \in Staff :
    path.weekend_offs[s] =
      (IF is_seishain[s] THEN Cardinality(WeekendOffDays(path, s, day)) ELSE 0)

(* C32: for every path retained after a day, whatever tier produced it     *)
(* (universal-off included): the weekend-off counter of a full-time worker *)
(* is the number of weekend days so far on which the worker is off in the  *)
(* matrix without having requested the day off, and that of a part-time    *)
(* worker is 0.                                                            *)
C32_WeekendCounterMatchesMatrix ==
  (pc \in {"strict", "relaxed", "universal", "assemble", "done"} /\ d >= 1
     /\ returned # "None") =>
    \A i \in 1..Len(current_paths) : WeekendCounterMatchesMatrix(current_paths[i], d - 1)

(* at most 9 workers are mandatory on the day and the available workers    *)
(* are at least the minimum team size                                      *)
MandatoryFitsAndTeamAvailable(day) ==
  /\ Cardinality(MustWork(day)) <= MAX_TEAM
  /\ Cardinality(Avail(day)) >= MinTeamSize(roles_config)

(* every retained path has the day's mandatory workers working, and the    *)
(* day was not resolved by universal-off                                   *)
MandatoryWorkInEveryPath(day) ==
  /\ tier_log[day + 1] # "universal"
  /\ \A i \in 1..Len(current_paths) : MustWork(day) \subseteq current_paths[i].sched[day]

(* C33 as stated: on a day where at most 9 workers are mandatory and the   *)
(* available workers are at least the minimum team size, every path        *)
(* retained after the day has all its mandatory workers working and the    *)
(* day is not resolved by universal-off.                                   *)
C33_MandatoryWorkWhenTeamAvailable ==
  (pc \in {"strict", "relaxed", "universal", "assemble", "done"} /\ returned # "None") =>
    \A day \in 0..(d - 1) :
      MandatoryFitsAndTeamAvailable(day) => MandatoryWorkInEveryPath(day)

(* C33 amended: the same, on days where moreover the minimum team size is  *)
(* at most 9, the largest team a pattern can have.                         *)
C33_MandatoryWorkWhenTeamAvailableAndWithinCap ==
  (pc \in {"strict", "relaxed", "universal", "assemble", "done"} /\ returned # "None") =>
    \A day \in 0..(d - 1) :
      (MandatoryFitsAndTeamAvailable(day) /\ MinTeamSize(roles_config) <= MAX_TEAM)
        => MandatoryWorkInEveryPath(day)

C33_Witness ==
  /\ d >= 2
  /\ Len(tier_log) = d
  /\ \E day \in 0..(d - 1) :
       /\ tier_log[day + 1] = "relaxed"
       /\ MandatoryFitsAndTeamAvailable(day)
       /\ \E s \in MustWork(day) : LeaveRequested(s, day)
       /\ Cardinality(Avail(day)) > MinTeamSize(roles_config)
       /\ MandatoryWorkInEveryPath(day)
       /\ Len(current_paths) >= 2

(* the labels give every configured role at least its minimum headcount *)
LabelsStaffEveryRole(P, labels) ==
  \A i \in 1..Len(roles_config) :
    Cardinality({s \in P : labels[s] = roles_config[i].name}) >= roles_config[i].min_per_day

(* C34: a day without a shortage marker is staffed in the displayed        *)
(* labels: for every working set that passes can_cover_required_roles, the *)
(* labels assign_roles_smartly gives that set (with the preferred roles    *)
(* the workers declare) give every configured role at least its minimum    *)
(* headcount.                                                              *)
C34_CoveredSetIsStaffedInLabels ==
  (pc \notin {"start", "patterns"} /\ returned # "None") =>
    /\ \A P \in SUBSET Staff :
         can_cover_required_roles(P, role_map, constraints, roles_config) =>
           LabelsStaffEveryRole(P, assign_roles_smartly(P, role_map, roles_config, staff_df))
    /\ Done => \A day \in Days :
         output_data.shortage[day] # SYM_SHORT =>
           LabelsStaffEveryRole(ShownWorking(day), [s \in Staff |-> output_data.cells[s][day]])

(* C35: the coverage check has no false positives: whenever                *)
(* can_cover_required_roles is true of a worker subset, the subset has the *)
(* minimum morning-eligible and night-eligible headcounts and there is an  *)
(* assignment of distinct workers of the subset to roles that gives every  *)
(* role its minimum headcount of workers eligible for it.                  *)
C35_CoverageHasNoFalsePositives ==
  (pc \notin {"start", "patterns"} /\ returned # "None") =>
    \A P \in SUBSET Staff :
      can_cover_required_roles(P, role_map, constraints, roles_config)
        => HasExactAssignment(P)

C35_Witness ==
  /\ Done
  /\ Len(roles_config) = 2
  /\ \E day \in Days :
       /\ can_cover_required_roles(ShownWorking(day), role_map, constraints, roles_config)
       /\ HasExactAssignment(ShownWorking(day))
       /\ Cardinality(ShownWorking(day)) >= 3
       /\ output_data.shortage[day] # SYM_SHORT
  /\ \E P \in SUBSET Staff :
       /\ Cardinality(P) >= 2
       /\ ~can_cover_required_roles(P, role_map, constraints, roles_config)
       /\ ~HasExactAssignment(P)

SomeoneOverRequired == \E s \in Staff : OverRequired(s)

(* C36: when some worker's required off-days exceed the number of days of  *)
(* the window, the strict tier yields no successor on any day, so every    *)
(* day is resolved by the relaxed tier or by universal-off, and the        *)
(* consecutive-workdays limit removes no expansion on any day: the relaxed *)
(* tier keeps every pair of a path and an offered pattern.                 *)
C36_OverRequiredDisablesStrictTier ==
  /\ [][(pc = "strict" /\ SomeoneOverRequired) =>
          /\ StrictSuccessors = << >>
          /\ pc' = "relaxed"
          /\ d' = d]_vars
  /\ [][(SomeoneOverRequired /\ d' = d + 1) =>
          /\ pc \in {"relaxed", "universal"}
          /\ tier_log' = Append(tier_log, pc)
          /\ pc = "relaxed" =>
               Len(next_paths') = Len(current_paths) * Len(Prefix(day_patterns[d], PATTERN_CAP))]_vars
  /\ [][(SomeoneOverRequired /\ pc' = "done" /\ returned' = "table") =>
          /\ Len(tier_log) = num_days
          /\ \A i \in 1..Len(tier_log) : tier_log[i] \in {"relaxed", "universal"}]_vars

C36_Witness ==
  /\ Done
  /\ SomeoneOverRequired
  /\ num_days >= 2
  /\ \A i \in 1..Len(tier_log) : tier_log[i] = "relaxed"
  /\ \E s \in Staff, day \in Days :
       /\ ~ShownOff(s, day)
       /\ RunEndingAt(s, day) > max_cons_limits[s] + 1

=============================================================================
